---- MODULE Spec2Model ----
(***************************************************************************)
(* Lockstep rendezvous between the main process of a controller comparison *)
(* (parallel_controller_simulation) and its three controller worker        *)
(* processes, together with the setpoint progress tracker                  *)
(* (update_simulation_progress) and the trajectory recorder                *)
(* (construct_trajectory_data).                                            *)
(*                                                                         *)
(* Positions are modelled by one integer coordinate per drone; action      *)
(* values are integers in units of 1/2, so     that the affine maps        *)
(* between the native action range and [-1, 1] are exact.                  *)
(***************************************************************************)
EXTENDS Integers, Sequences, FiniteSets, TLC

(***************************************************************************)
(* Bounds of the model                                                     *)
(***************************************************************************)
\* Largest number of ticks a run may take (caps the stabilization loop).
MaxTicks == 3
\* Largest steps_per_setpoint drawn for a full run.
MaxSteps == 3
\* Largest number of evaluation setpoints.
MaxTargets == 2
\* Largest min_at_target_steps drawn.
MaxMinAt == 2
\* Longest accumulator handed to the recorder on its own.
MaxRecorded == 1
\* Largest min_hover_steps drawn, and the hover count at which calls stop.
MaxHoverSteps == 2
MaxHoverCount == 3
\* Largest episode length of an environment driven directly.
MaxEpisodeLength == 2
\* Steps of a data-driven MPC simulation the tracking callback is called for.
MaxCallbackSteps == 3
\* Largest steps_per_setpoint / number of tracker calls in the tracker run.
TrackerMaxSteps == 5

(***************************************************************************)
(* Program constants                                                      *)
(***************************************************************************)
\* steps_per_setpoint = None (stabilization mode).
NoSteps == -1
\* Canonical action range [-1, 1], in units of 1/2.
CanonMin == -2
CanonMax == 2
\* env.action_bounds (one action dimension), in units of 1/2.
ActionMin == 0
ActionMax == 8

\* The worker processes, in the order in which they are created.
Workers == <<"tracking", "rl", "dd_mpc">>
WorkerSet == {Workers[i] : i \in 1..Len(Workers)}

\* error_threshold values drawn.
ErrorThresholds == {1}

VARIABLES
    \* --- arguments of parallel_controller_simulation ---
    env_idx,              \* role -> agent slot (tracking/rl/dd_mpc_env_idx)
    eval_setpoints,       \* sequence of target positions
    steps_per_setpoint,   \* NoSteps or an integer
    min_at_target_steps,
    error_threshold,
    start_method,         \* multiprocessing start method ("none" if unset)
    device,               \* env.device: "cuda" or "cpu"
    num_envs,             \* env.num_envs
    \* --- main process ---
    cpc,                  \* position of the main process
    target_idx,           \* index of the enumerate() loop (0-based)
    sim_info,             \* SimInfo
    is_new_target,
    sent,                 \* iterations done of the send loop
    received,             \* iterations done of the collect loop
    action_buffer,        \* agent slot -> action value
    normalized_action_list,
    drone_pos_list,
    target_pos_list,
    trajectory,           \* the returned ControlTrajectory ("none" before)
    \* --- queues ---
    target_signal_queue,
    action_queue,
    obs_queue,            \* role -> queue of observations
    \* --- environment ---
    base_pos,             \* agent slot -> true position
    commands,             \* agent slot -> target position
    base_quat,            \* agent slot -> true orientation
    rel_pos,              \* agent slot -> target minus position, as of the last step
    obs_noise_std,
    min_hover_steps,
    hover_counter,        \* agent slot -> consecutive steps at the target
    drone_colors,
    drone_colors_enabled,
    ret,                  \* outcome of the last call of an environment method
    \* --- workers ---
    wpc,                  \* role -> position of the worker
    w_signal,             \* role -> last target signal received
    w_obs,                \* role -> current observation
    \* --- history (not program state) ---
    tick,                 \* ticks started (tracker calls of the run)
    ticks_done,           \* ticks completed (recorded)
    calls,                \* tracker calls since the last setpoint reset
    collected,            \* agent slots of the actions consumed in this tick
    signals_got,          \* role -> number of target signals dequeued
    new_got,              \* role -> number of is_new_target signals dequeued
    pushed,               \* role -> number of actions pushed
    produced,             \* role -> action produced in the current tick
    done_sent,            \* number of signals sent with done = TRUE
    err_hist,             \* position errors seen by the tracker calls of the run
    obs_got,              \* role -> number of observations dequeued
    env_steps,            \* calls of env.step
    step_hist,            \* per tick: actions consumed, rows stepped, position reached
    \* --- further buffers of the environment (HoverEnv) ---
    base_lin_vel,         \* agent slot -> linear velocity
    base_ang_vel,         \* agent slot -> angular velocity
    episode_length_buf,   \* agent slot -> steps since the last reset
    reset_buf,            \* agent slot -> reset flag
    last_actions,         \* agent slot -> action of the previous step
    ctbr_controller_state,\* state of the CTBR controller
    saved_state,          \* EnvState taken by get_current_state, with its index
    max_episode_length,   \* steps after which an episode times out
    auto_target_updates,  \* targets are resampled when reached
    \* --- data collected by drone_tracking_callback ---
    U_k,                  \* step -> input stored
    Y_k,                  \* step -> output stored
    info_dict             \* info_dict["last_step"]

vars == <<env_idx, eval_setpoints, steps_per_setpoint, min_at_target_steps,
          error_threshold, cpc, target_idx, sim_info, is_new_target, sent,
          received, action_buffer, normalized_action_list, drone_pos_list,
          target_pos_list, trajectory, target_signal_queue, action_queue,
          obs_queue, base_pos, commands, wpc, w_signal, w_obs, tick,
          ticks_done, calls, collected, signals_got, new_got, pushed,
          produced, done_sent, start_method, err_hist, device, num_envs,
          base_quat, rel_pos, obs_noise_std, min_hover_steps, hover_counter,
          drone_colors, drone_colors_enabled, ret, obs_got, env_steps,
          step_hist, base_lin_vel, base_ang_vel, episode_length_buf,
          reset_buf, last_actions, ctbr_controller_state, saved_state,
          max_episode_length, auto_target_updates, U_k, Y_k, info_dict>>

(***************************************************************************)
(* Helpers                                                                 *)
(***************************************************************************)
Abs(x) == IF x < 0 THEN -x ELSE x

MaxOf(S) == CHOOSE m \in S : \A x \in S : x <= m

\* Agent slots of the vectorized environment.
Slots == 0..(num_envs - 1)

\* Role -> agent slot assignments drawn for a run.
EnvIdxAssignments ==
    { [w \in WorkerSet |-> CASE w = "tracking" -> 0 [] w = "rl" -> 1 [] OTHER -> 2],
      [w \in WorkerSet |-> CASE w = "tracking" -> 2 [] w = "rl" -> 0 [] OTHER -> 1] }

\* The evaluation setpoint list with n targets: targets alternate 1, 0, 1, ...
SetpointList(n) == [i \in 1..n |-> i % 2]

\* len(processes)
num_processes == Len(Workers)

\* len(eval_setpoints)
num_setpoints == Len(eval_setpoints)

(***************************************************************************)
(* linear_interpolate: y = y_min + (x - x_min) * (y_max - y_min)           *)
(*                                   / (x_max - x_min)                     *)
(***************************************************************************)
linear_interpolate(x, x_min, x_max, y_min, y_max) ==
    y_min + ((x - x_min) * (y_max - y_min)) \div (x_max - x_min)

\* Variant: no clamping.
clamp_None(x, lo, hi) == x

\* torch.Tensor.clamp(lo, hi)
clamp(x, lo, hi) == IF x < lo THEN lo ELSE IF x > hi THEN hi ELSE x

(***************************************************************************)
(* update_simulation_progress                                              *)
(***************************************************************************)
\* torch.abs(target_pos - drone_pos).max().item()
PosError(target_pos, drone_pos) ==
    MaxOf({Abs(target_pos - drone_pos[s]) : s \in Slots})

\* Variant: the target is done one call late.
StepsReached_Late(steps, sps) == steps > sps

\* Fixed-duration branch: the step count reaches steps_per_setpoint.
StepsReached(steps, sps) == steps = sps

\* Stabilization branch: the drones are within the error threshold.
AtTarget(pos_error, thr) == pos_error < thr

\* Variant: one more step at the target is required.
Stabilized_Late(at_steps, mats) == at_steps = mats + 1

\* Stabilization branch: the drones stayed at the target long enough.
Stabilized(at_steps, mats) == at_steps = mats

\* Variant: compares the 0-based index with the number of targets.
IsLastTarget_OffByOne(info) == info.current_target_idx = info.num_targets

\* This is the last target of the run.
IsLastTarget(info) == info.current_target_idx = info.num_targets - 1

\* Variant: the simulation is marked for termination on any target.
MarkTargetDone_AnyTarget(info) ==
    [info EXCEPT !.target_done = TRUE, !.in_progress = FALSE]

\* Mark the target done, and the simulation for termination on the last one.
MarkTargetDone(info) ==
    [info EXCEPT !.target_done = TRUE,
                 !.in_progress = IF IsLastTarget(info) THEN FALSE ELSE @]

\* Variant: the fixed-duration branch also counts the steps at the target.
UpdateSimulationProgress_BothCounters(target_pos, drone_pos, sps, mats, thr, info) ==
    IF sps # NoSteps
    THEN LET i1 == [info EXCEPT !.steps_since_target_set = @ + 1,
                                !.at_target_steps = @ + 1]
         IN  IF StepsReached(i1.steps_since_target_set, sps)
             THEN MarkTargetDone(i1)
             ELSE i1
    ELSE IF AtTarget(PosError(target_pos, drone_pos), thr)
         THEN LET i1 == [info EXCEPT !.at_target_steps = @ + 1]
              IN  IF Stabilized(i1.at_target_steps, mats)
                  THEN MarkTargetDone(i1)
                  ELSE i1
         ELSE [info EXCEPT !.at_target_steps = 0]

UpdateSimulationProgress(target_pos, drone_pos, sps, mats, thr, info) ==
    IF sps # NoSteps
    THEN LET i1 == [info EXCEPT !.steps_since_target_set = @ + 1]
         IN  IF StepsReached(i1.steps_since_target_set, sps)
             THEN MarkTargetDone(i1)
             ELSE i1
    ELSE IF AtTarget(PosError(target_pos, drone_pos), thr)
         THEN LET i1 == [info EXCEPT !.at_target_steps = @ + 1]
              IN  IF Stabilized(i1.at_target_steps, mats)
                  THEN MarkTargetDone(i1)
                  ELSE i1
         ELSE [info EXCEPT !.at_target_steps = 0]

\* SimInfo(num_targets=num_setpoints)
NewSimInfo(n) ==
    [num_targets |-> n, steps_since_target_set |-> 0, at_target_steps |-> 0,
     target_done |-> FALSE, current_target_idx |-> 0, in_progress |-> TRUE]

\* Variant: the target index is stored 1-based.
ResetSimInfo_OneBased(info, idx) ==
    [info EXCEPT !.steps_since_target_set = 0, !.at_target_steps = 0,
                 !.target_done = FALSE, !.current_target_idx = idx + 1]

\* Variant: the counters are carried over to the next setpoint.
ResetSimInfo_KeepCounters(info, idx) ==
    [info EXCEPT !.target_done = FALSE, !.current_target_idx = idx]

\* The per-setpoint reset at the top of the enumerate() loop.
ResetSimInfo(info, idx) ==
    [info EXCEPT !.steps_since_target_set = 0, !.at_target_steps = 0,
                 !.target_done = FALSE, !.current_target_idx = idx]

(***************************************************************************)
(* Environment (HoverEnv), as seen by the main process                     *)
(***************************************************************************)
\* Position vectors a physics step may leave the drones at.
StepOutcomes ==
    { [s \in Slots |-> 0], [s \in Slots |-> 1],
      [s \in Slots |-> IF s = 0 THEN 0 ELSE 1] }

\* self.rel_pos = self.commands - self.base_pos
RelPos(cmds, pos) == [s \in Slots |-> cmds[s] - pos[s]]

\* The orientation the drones have when the step leaves them at pos.
StepQuat(pos) == [s \in Slots |-> 1 - pos[s]]

\* env_cfg["at_target_threshold"]
at_target_threshold == 1

\* torch.norm(self.rel_pos, dim=1) < self.at_target_threshold
at_target_mask(rel) == {s \in Slots : Abs(rel[s]) < at_target_threshold}

\* Variant: the counters of the drones away from the target are kept.
HoverCounterAfter_NoReset(counter, mask, min_steps) ==
    IF min_steps > 0
    THEN [s \in Slots |-> IF s \in mask THEN counter[s] + 1 ELSE counter[s]]
    ELSE counter

\* hover_counter after a call of _hovering_at_target
HoverCounterAfter(counter, mask, min_steps) ==
    IF min_steps > 0
    THEN [s \in Slots |-> IF s \in mask THEN counter[s] + 1 ELSE 0]
    ELSE counter

\* The indices _hovering_at_target returns, given the updated counters.
HoveringResult(counter, mask, min_steps) ==
    IF min_steps > 0
    THEN {s \in Slots : counter[s] >= min_steps}
    ELSE mask

\* env_cfg["clip_actions"]
clip_actions == 2

\* env_cfg["base_init_pos"] and env_cfg["base_init_quat"]
base_init_pos == 0
base_init_quat == 0

\* The termination limits of env_cfg: position error, height, velocities.
termination_if_pos_greater_than == 3
termination_if_close_to_ground == 0
termination_if_vel_greater_than == 3

\* command_cfg position ranges: the values gs_rand_float may return.
CommandValues == {0, 1}

\* State of the CTBR controller after construction or reset(), and after a
\* compute() call.
ctbr_initial_state == 0
ctbr_compute(state) == (state % 2) + 1

\* The velocities the drones have when the step leaves them at pos.
StepLinVel(pos) == pos
StepAngVel(pos) == [s \in Slots |-> -pos[s]]

\* self.crash_condition of one drone; the attitudes drawn stay within the
\* pitch and roll limits.
crash_condition(pos, rel, lin, ang) ==
    \/ Abs(rel) > termination_if_pos_greater_than
    \/ pos < termination_if_close_to_ground
    \/ Abs(ang) > termination_if_vel_greater_than
    \/ Abs(lin) > termination_if_vel_greater_than

\* _resample_commands(envs_idx): the command vectors it may leave.
ResampleDraws(cmds, envs) ==
    { [s \in Slots |-> IF s \in envs THEN f[s] ELSE cmds[s]] :
          f \in [envs -> CommandValues] }

\* Variant: the episode length of a reset drone is left as it is.
EpisodeLengthAfterReset_Kept(len, envs) == len

\* reset_idx: self.episode_length_buf[envs_idx] = 0
EpisodeLengthAfterReset(len, envs) ==
    [s \in Slots |-> IF s \in envs THEN 0 ELSE len[s]]

\* self.episode_length_buf > self.max_episode_length
TimedOut(len, max_len) == len > max_len

\* The drones step resets when the physics leaves the drones at outcome:
\* self.reset_buf.nonzero(), the argument of reset_idx.
reset_envs(outcome) ==
    {s \in Slots :
        \/ TimedOut(episode_length_buf[s] + 1, max_episode_length)
        \/ crash_condition(outcome[s], commands[s] - outcome[s],
                           StepLinVel(outcome)[s], StepAngVel(outcome)[s])}

\* HoverEnv.step(actions), the physics leaving the drones at outcome: clip
\* the actions, update the buffers, resample the commands of the drones
\* stabilized at their targets if auto_target_updates, then reset_idx the
\* drones that crashed or timed out.
step(actions, outcome) ==
    LET acts  == [s \in Slots |-> clamp(actions[s], -clip_actions, clip_actions)]
        len1  == [s \in Slots |-> episode_length_buf[s] + 1]
        rel1  == RelPos(commands, outcome)
        lin1  == StepLinVel(outcome)
        ang1  == StepAngVel(outcome)
        mask  == at_target_mask(rel1)
        hc1   == IF auto_target_updates
                 THEN HoverCounterAfter(hover_counter, mask, min_hover_steps)
                 ELSE hover_counter
        stab  == IF auto_target_updates
                 THEN HoveringResult(hc1, mask, min_hover_steps)
                 ELSE {}
        hc2   == [s \in Slots |-> IF s \in stab THEN 0 ELSE hc1[s]]
        R     == reset_envs(outcome)
    IN  \E cmds1 \in ResampleDraws(commands, stab) :
        \E cmds2 \in ResampleDraws(cmds1, R) :
            /\ base_pos' = [s \in Slots |->
                               IF s \in R THEN base_init_pos ELSE outcome[s]]
            /\ rel_pos' = IF R = {} THEN rel1 ELSE RelPos(cmds1, base_pos')
            /\ base_quat' = [s \in Slots |->
                                IF s \in R THEN base_init_quat
                                           ELSE StepQuat(outcome)[s]]
            /\ base_lin_vel' = [s \in Slots |-> IF s \in R THEN 0 ELSE lin1[s]]
            /\ base_ang_vel' = [s \in Slots |-> IF s \in R THEN 0 ELSE ang1[s]]
            /\ episode_length_buf' = EpisodeLengthAfterReset(len1, R)
            /\ reset_buf' = [s \in Slots |-> s \in R]
            /\ hover_counter' = [s \in Slots |-> IF s \in R THEN 0 ELSE hc2[s]]
            /\ ctbr_controller_state' =
                  IF R = {} THEN ctbr_compute(ctbr_controller_state)
                            ELSE ctbr_initial_state
            /\ commands' = cmds2
            /\ last_actions' = acts

\* A list holding the tensor itself: on the CPU, Tensor.cpu() and
\* Tensor.numpy() return the object or a view of its memory, so every entry
\* appended so far shows the tensor's current contents; on another device
\* they copy.
Aliased(list, tensor) ==
    IF device = "cpu" THEN [i \in 1..Len(list) |-> tensor] ELSE list

\* Values of one component of torch.randn_like(...) * obs_noise_std, and
\* the noise tensors drawn by one call.
NoiseValues == {-1, 1}
NoiseDraws ==
    IF obs_noise_std > 0
    THEN {[s \in Slots |-> IF s = 0 THEN n ELSE -n] : n \in NoiseValues}
    ELSE {[s \in Slots |-> 0]}

\* drone_colors = None, and no environment method called yet.
NoColors == <<"None">>
NoCall == [method |-> "none"]

\* Variant: the noise is added whatever add_noise says.
get_pos_AlwaysNoisy(pos, add_noise, noise_std, noise) ==
    IF noise_std > 0
    THEN [s \in Slots |-> pos[s] + noise[s]]
    ELSE pos

\* HoverEnv.get_pos
get_pos(pos, add_noise, noise_std, noise) ==
    IF add_noise /\ noise_std > 0
    THEN [s \in Slots |-> pos[s] + noise[s]]
    ELSE pos

\* HoverEnv.update_target_pos, called for every environment index
update_target_pos(cmds, envs, target_pos) ==
    [s \in Slots |-> IF s \in envs THEN target_pos ELSE cmds[s]]

(***************************************************************************)
(* Controller workers                                                      *)
(***************************************************************************)
\* The action a controller computes from its observation and target, in its
\* native range: physical units for tracking and dd_mpc, [-1, 1] for rl.
ControllerAction(w, obs, target_pos) ==
    CASE w = "tracking" -> 4 + 2 * (target_pos - obs)
      [] w = "dd_mpc"   -> 4 + 4 * (target_pos - obs)
      [] OTHER          -> 2 * obs

\* The message a worker puts on the action queue.
WorkerAction(w, action) == <<env_idx[w], action>>

\* The worker leaves its loop after the iteration that saw done = TRUE.
WorkerNextPc(signal) == IF signal.done THEN "terminated" ELSE "wait_obs"

\* EnvTargetSignal
EnvTargetSignal(target_pos, new_target, done) ==
    [target_pos |-> target_pos, is_new_target |-> new_target, done |-> done]

NoSignal == EnvTargetSignal(0, FALSE, FALSE)

(***************************************************************************)
(* construct_trajectory_data                                               *)
(***************************************************************************)
\* Clamp to [-1, 1] and inverse-normalize to the true control input range.
ControlInput(y) ==
    linear_interpolate(clamp(y, CanonMin, CanonMax), CanonMin, CanonMax,
                       ActionMin, ActionMax)

\* Variant: the setpoint array misses the first tick.
construct_trajectory_data_DropFirst(actions, positions, targets) ==
    [control_inputs |->
        [s \in Slots |-> [t \in 1..Len(actions) |-> ControlInput(actions[t][s])]],
     system_outputs |->
        [s \in Slots |-> [t \in 1..Len(positions) |-> positions[t][s]]],
     system_setpoint |-> Tail(targets)]

construct_trajectory_data(actions, positions, targets) ==
    [control_inputs |->
        [s \in Slots |-> [t \in 1..Len(actions) |-> ControlInput(actions[t][s])]],
     system_outputs |->
        [s \in Slots |-> [t \in 1..Len(positions) |-> positions[t][s]]],
     system_setpoint |-> targets]

NoTrajectory ==
    [control_inputs |-> [s \in Slots |-> <<>>],
     system_outputs |-> [s \in Slots |-> <<>>],
     system_setpoint |-> <<>>]

(***************************************************************************)
(* Initial state: the arguments of a run, the queues just created, the     *)
(* main process at its first statement, no worker started yet.             *)
(***************************************************************************)
\* Values of mp.get_start_method(allow_none=True); "none" stands for None.
StartMethods == {"none", "fork", "spawn"}

InitArgs ==
    /\ env_idx \in EnvIdxAssignments
    /\ \E n \in 1..MaxTargets : eval_setpoints = SetpointList(n)
    /\ steps_per_setpoint \in {NoSteps} \cup (0..MaxSteps)
    /\ steps_per_setpoint * Len(eval_setpoints) <= MaxTicks
    /\ min_at_target_steps \in 0..MaxMinAt
    /\ steps_per_setpoint # NoSteps => min_at_target_steps = 1
    /\ error_threshold \in ErrorThresholds
    /\ start_method \in StartMethods
    /\ device = "cuda"
    /\ num_envs = 3

InitMain ==
    /\ target_idx = 0
    /\ sim_info = NewSimInfo(Len(eval_setpoints))
    /\ is_new_target = FALSE
    /\ sent = 0
    /\ received = 0
    /\ action_buffer = [s \in Slots |-> 0]
    /\ normalized_action_list = <<>>
    /\ drone_pos_list = <<>>
    /\ target_pos_list = <<>>
    /\ trajectory = NoTrajectory
    /\ target_signal_queue = <<>>
    /\ action_queue = <<>>
    /\ obs_queue = [w \in WorkerSet |-> <<>>]

\* No EnvState taken yet.
NoState == [taken |-> FALSE]

\* HoverEnv.__init__ and reset(): velocities, episode lengths, reset flags,
\* last actions, CTBR controller.
InitEnvBufs ==
    /\ base_lin_vel = [s \in Slots |-> 0]
    /\ base_ang_vel = [s \in Slots |-> 0]
    /\ episode_length_buf = [s \in Slots |-> 0]
    /\ reset_buf = [s \in Slots |-> TRUE]
    /\ last_actions = [s \in Slots |-> 0]
    /\ ctbr_controller_state = ctbr_initial_state
    /\ saved_state = NoState

\* math.ceil(env_cfg["episode_length_s"] / self.step_dt) of the runs: longer
\* than any run drawn.
run_max_episode_length == 1500

\* create_env builds the environment with auto_target_updates=False.
InitEnvKeep ==
    /\ max_episode_length = run_max_episode_length
    /\ auto_target_updates = FALSE

\* HoverEnv.__init__, for the attributes the run does not use.
InitEnvObj ==
    /\ InitEnvBufs
    /\ InitEnvKeep
    /\ base_quat = [s \in Slots |-> 0]
    /\ rel_pos = [s \in Slots |-> 0]
    /\ obs_noise_std = 0
    /\ min_hover_steps = 0
    /\ hover_counter = [s \in Slots |-> 0]
    /\ drone_colors = NoColors
    /\ drone_colors_enabled = FALSE
    /\ ret = NoCall

InitEnv ==
    /\ base_pos = [s \in Slots |-> 0]
    /\ commands = [s \in Slots |-> 0]
    /\ InitEnvObj

\* An entry of U_k or Y_k no call has written, and info_dict without a
\* "last_step" entry.
NotRecorded == 0
NoLastStep == -1

\* The arrays and the dictionary the caller hands to drone_tracking_callback.
InitCallback ==
    /\ U_k = [k \in 0..(MaxCallbackSteps - 1) |-> NotRecorded]
    /\ Y_k = [k \in 0..(MaxCallbackSteps - 1) |-> NotRecorded]
    /\ info_dict = [last_step |-> NoLastStep]

InitWorkers ==
    /\ InitCallback
    /\ wpc = [w \in WorkerSet |-> "not_started"]
    /\ w_signal = [w \in WorkerSet |-> NoSignal]
    /\ w_obs = [w \in WorkerSet |-> 0]

InitHistory ==
    /\ tick = 0
    /\ ticks_done = 0
    /\ calls = 0
    /\ collected = <<>>
    /\ signals_got = [w \in WorkerSet |-> 0]
    /\ new_got = [w \in WorkerSet |-> 0]
    /\ pushed = [w \in WorkerSet |-> 0]
    /\ produced = [w \in WorkerSet |-> 0]
    /\ done_sent = 0
    /\ err_hist = <<>>
    /\ obs_got = [w \in WorkerSet |-> 0]
    /\ env_steps = 0
    /\ step_hist = <<>>

Init ==
    /\ InitArgs /\ InitMain /\ InitEnv /\ InitWorkers /\ InitHistory
    /\ cpc = "validate"

args == <<env_idx, eval_setpoints, steps_per_setpoint, min_at_target_steps,
          error_threshold, start_method, device, num_envs>>
mainLoop == <<sent, received>>
lists == <<normalized_action_list, drone_pos_list, target_pos_list>>
queues == <<target_signal_queue, action_queue, obs_queue>>
envVars == <<base_pos, commands>>
envCfg == <<obs_noise_std, min_hover_steps, hover_counter, drone_colors,
            drone_colors_enabled, ret>>
envBufs == <<base_lin_vel, base_ang_vel, episode_length_buf, reset_buf,
             last_actions, ctbr_controller_state>>
callbackVars == <<U_k, Y_k, info_dict>>
envKeep == <<saved_state, max_episode_length, auto_target_updates,
             callbackVars>>
envObj == <<base_quat, rel_pos, envCfg, envBufs, envKeep>>
workerVars == <<wpc, w_signal, w_obs>>
workerHist == <<signals_got, new_got, pushed, produced>>

\* The target of the setpoint being evaluated.
target_pos == eval_setpoints[target_idx + 1]

(***************************************************************************)
(* Main process                                                            *)
(***************************************************************************)
\* Variant: an unset start method is accepted as well.
SpawnMethodSet_AllowNone(method) == method \in {"spawn", "none"}

\* The start method required for working with CUDA tensors.
SpawnMethodSet(method) == method = "spawn"

\* Validate the multiprocessing start method: raise ValueError otherwise.
CValidate ==
    /\ cpc = "validate"
    /\ cpc' = IF SpawnMethodSet(start_method) THEN "start" ELSE "raised"
    /\ UNCHANGED <<args, target_idx, sim_info, is_new_target, mainLoop,
                   action_buffer, lists, trajectory, queues, envVars,
                   workerVars, workerHist, tick, ticks_done, calls,
                   collected, done_sent, err_hist,
                   obs_got, env_steps, step_hist, envObj>>

\* Every worker process has been created and started.
StartedWorkers == [w \in WorkerSet |-> "wait_signal"]

\* Create the queues, start the three worker processes and create the action
\* buffer and the mask of the non-RL envs (IndexError for an RL env index
\* that is no row of the buffer).
CStart ==
    /\ cpc = "start"
    /\ wpc' = StartedWorkers
    /\ cpc' = IF env_idx["rl"] \in Slots THEN "setpoint" ELSE "raised"
    /\ UNCHANGED <<args, target_idx, sim_info, is_new_target, mainLoop,
                   action_buffer, lists, trajectory, queues, envVars,
                   w_signal, w_obs, workerHist, tick, ticks_done, calls,
                   collected, done_sent, err_hist,
                   obs_got, env_steps, step_hist, envObj>>

\* Top of the enumerate(eval_setpoints) loop: reset the progress state and
\* set the environment target.
CSetpointStart ==
    /\ cpc = "setpoint"
    /\ target_idx < num_setpoints
    /\ sim_info' = ResetSimInfo(sim_info, target_idx)
    /\ is_new_target' = TRUE
    /\ commands' = update_target_pos(commands, Slots, target_pos)
    /\ cpc' = "loop"
    /\ calls' = 0
    /\ UNCHANGED <<args, target_idx, mainLoop, action_buffer, lists,
                   trajectory, queues, base_pos, workerVars, workerHist,
                   tick, ticks_done, collected, done_sent, err_hist,
                   obs_got, env_steps, step_hist, envObj>>

\* "while not sim_info.target_done" is false: on to the next setpoint.
CSetpointDone ==
    /\ cpc = "loop"
    /\ sim_info.target_done
    /\ target_idx' = target_idx + 1
    /\ cpc' = "setpoint"
    /\ UNCHANGED <<args, sim_info, is_new_target, mainLoop, action_buffer,
                   lists, trajectory, queues, envVars, workerVars,
                   workerHist, tick, ticks_done, calls, collected, done_sent, err_hist,
                   obs_got, env_steps, step_hist, envObj>>

\* Start of a tick: update the progress with the true drone position and
\* store the target position.
CTracker ==
    /\ cpc = "loop"
    /\ ~sim_info.target_done
    /\ tick < MaxTicks
    /\ \E noise \in NoiseDraws :
          sim_info' = UpdateSimulationProgress(
                          target_pos,
                          get_pos(base_pos, FALSE, obs_noise_std, noise),
                          steps_per_setpoint, min_at_target_steps,
                          error_threshold, sim_info)
    /\ target_pos_list' = Append(target_pos_list, target_pos)
    /\ sent' = 0
    /\ cpc' = "send"
    /\ tick' = tick + 1
    /\ calls' = calls + 1
    /\ err_hist' = Append(err_hist, PosError(target_pos, base_pos))
    /\ collected' = <<>>
    /\ UNCHANGED <<args, target_idx, is_new_target, received, action_buffer,
                   normalized_action_list, drone_pos_list, trajectory,
                   queues, envVars, workerVars, workerHist, ticks_done,
                   done_sent,
                   obs_got, env_steps, step_hist, envObj>>

\* Variant: the done flag is never raised.
SignalDone_Never(info) == FALSE

\* done flag of the signals of this tick
SignalDone(info) == ~info.in_progress

\* Variants: the send loop puts one signal too few / too many.
SendDone_OneShort(n) == n = num_processes - 1
SendDone_OneMore(n) == n = num_processes + 1

\* "for _ in range(num_processes)" of the send loop is exhausted after n puts.
SendDone(n) == n = num_processes

\* Variant: the flag is never cleared.
MarkTargetSeen_Never == TRUE

\* "is_new_target = False": mark the target as already seen.
MarkTargetSeen == FALSE

\* One iteration of the send loop; after the last one the target is marked
\* as already seen.
CSendSignal ==
    /\ cpc = "send"
    /\ target_signal_queue' =
          Append(target_signal_queue,
                 EnvTargetSignal(target_pos, is_new_target, SignalDone(sim_info)))
    /\ done_sent' = done_sent + (IF SignalDone(sim_info) THEN 1 ELSE 0)
    /\ sent' = sent + 1
    /\ IF SendDone(sent + 1)
       THEN /\ is_new_target' = MarkTargetSeen
            /\ received' = 0
            /\ cpc' = "recv"
       ELSE UNCHANGED <<is_new_target, received, cpc>>
    /\ UNCHANGED <<args, target_idx, sim_info, action_buffer, lists,
                   trajectory, action_queue, obs_queue, envVars, workerVars,
                   workerHist, tick, ticks_done, calls, collected, err_hist,
                   obs_got, env_steps, step_hist, envObj>>

\* Variant: the row written is the arrival position of the action.
StoreAction_ByArrival(buf, msg) == [buf EXCEPT ![received] = msg[2]]

\* Store an action in the action buffer at its corresponding env idx.
StoreAction(buf, msg) == [buf EXCEPT ![msg[1]] = msg[2]]

\* Variants: the collect loop gets one action too few / too many.
CollectDone_OneShort(n) == n = num_processes - 1
CollectDone_OneMore(n) == n = num_processes + 1

\* "for _ in range(num_processes)" of the collect loop is exhausted after n gets.
CollectDone(n) == n = num_processes

\* One iteration of the collect loop: blocks until an action is available.
CRecvAction ==
    /\ cpc = "recv"
    /\ action_queue # <<>>
    /\ action_queue' = Tail(action_queue)
    /\ IF Head(action_queue)[1] \in Slots
       THEN /\ action_buffer' = StoreAction(action_buffer, Head(action_queue))
            /\ collected' = Append(collected, Head(action_queue)[1])
            /\ received' = received + 1
            /\ cpc' = IF CollectDone(received + 1) THEN "step" ELSE "recv"
       ELSE \* IndexError: the env idx is no row of the action buffer
            /\ cpc' = "raised"
            /\ UNCHANGED <<action_buffer, collected, received>>
    /\ normalized_action_list' = Aliased(normalized_action_list, action_buffer')
    /\ UNCHANGED <<args, target_idx, sim_info, is_new_target, sent,
                   drone_pos_list, target_pos_list, trajectory, target_signal_queue, obs_queue, envVars,
                   workerVars, workerHist, tick, ticks_done, calls,
                   done_sent, err_hist,
                   obs_got, env_steps, step_hist, envObj>>

\* Variant: every row of the buffer is normalized.
non_rl_env_mask_All == Slots

\* Mask of the non-RL envs, whose actions require normalization to [-1, 1].
non_rl_env_mask == Slots \ {env_idx["rl"]}

\* Scale the actions of the masked envs from the env action bounds to [-1, 1].
NormalizeBuffer(buf, mask) ==
    [s \in Slots |->
        IF s \in mask
        THEN linear_interpolate(buf[s], ActionMin, ActionMax, CanonMin, CanonMax)
        ELSE buf[s]]

\* Normalize the batched actions and step the environment once.
CStep ==
    /\ cpc = "step"
    /\ action_buffer' = NormalizeBuffer(action_buffer, non_rl_env_mask)
    /\ normalized_action_list' = Aliased(normalized_action_list, action_buffer')
    /\ \E outcome \in StepOutcomes : step(action_buffer', outcome)
    /\ drone_pos_list' = Aliased(drone_pos_list, base_pos')
    /\ env_steps' = env_steps + 1
    /\ step_hist' = Append(step_hist, [actions |-> produced,
                                       applied |-> action_buffer',
                                       pos     |-> base_pos',
                                       cmds    |-> commands])
    /\ cpc' = "obs"
    /\ UNCHANGED <<args, target_idx, sim_info, is_new_target, mainLoop,
                   target_pos_list, trajectory, queues, workerVars,
                   workerHist, tick, ticks_done, calls, collected, done_sent,
                   err_hist, obs_got, obs_noise_std, min_hover_steps,
                   drone_colors, drone_colors_enabled, ret, envKeep>>

\* Variant: every worker is sent what belongs to the worker of slot 0.
Observation_FirstSlot(w, drone_pos, pos, cmds) ==
    CASE w = "tracking" -> drone_pos[0]
      [] w = "dd_mpc"   -> drone_pos[0]
      [] OTHER          -> cmds[0] - pos[0]

\* The observation sent to each worker after the step.
Observation(w, drone_pos, pos, cmds) ==
    CASE w = "tracking" -> drone_pos[env_idx[w]]
      [] w = "dd_mpc"   -> drone_pos[env_idx[w]]
      [] OTHER          -> cmds[env_idx[w]] - pos[env_idx[w]]

\* Send one observation to each worker and store the control information
\* of the tick (using the true drone position).
CSendObs ==
    /\ cpc = "obs"
    /\ \E noise \in NoiseDraws :
          \* the noise of the step's observation is drawn like that of
          \* get_pos; the draws are taken equal
          LET drone_pos == get_pos(base_pos, TRUE, obs_noise_std, noise)
          IN  obs_queue' = [w \in WorkerSet |->
                  Append(obs_queue[w],
                         Observation(w, drone_pos, drone_pos, commands))]
    /\ normalized_action_list' = Append(normalized_action_list, action_buffer)
    /\ \E noise \in NoiseDraws :
          drone_pos_list' =
              Append(drone_pos_list,
                     get_pos(base_pos, FALSE, obs_noise_std, noise))
    /\ ticks_done' = ticks_done + 1
    /\ cpc' = "loop"
    /\ UNCHANGED <<args, target_idx, sim_info, is_new_target, mainLoop,
                   action_buffer, target_pos_list, trajectory,
                   target_signal_queue, action_queue, envVars, workerVars,
                   workerHist, tick, calls, collected, done_sent, err_hist,
                   obs_got, env_steps, step_hist, envObj>>

\* After the last setpoint: construct the control trajectory data.
CConstruct ==
    /\ cpc = "setpoint"
    /\ target_idx = num_setpoints
    /\ trajectory' = construct_trajectory_data(
                         normalized_action_list, drone_pos_list, target_pos_list)
    /\ cpc' = "join"
    /\ UNCHANGED <<args, target_idx, sim_info, is_new_target, mainLoop,
                   action_buffer, lists, queues, envVars, workerVars,
                   workerHist, tick, ticks_done, calls, collected, done_sent, err_hist,
                   obs_got, env_steps, step_hist, envObj>>

\* p.join() for every process: returns once every worker has exited.
AllJoined(pcs) == \A w \in WorkerSet : pcs[w] = "terminated"

CJoin ==
    /\ cpc = "join"
    /\ AllJoined(wpc)
    /\ cpc' = "returned"
    /\ UNCHANGED <<args, target_idx, sim_info, is_new_target, mainLoop,
                   action_buffer, lists, trajectory, queues, envVars,
                   workerVars, workerHist, tick, ticks_done, calls,
                   collected, done_sent, err_hist,
                   obs_got, env_steps, step_hist, envObj>>

(***************************************************************************)
(* Worker processes: block for the target signal, compute one action from  *)
(* the current observation, push it, leave on done, else block for the     *)
(* next observation.                                                       *)
(***************************************************************************)
WGetSignal(w) ==
    /\ wpc[w] = "wait_signal"
    /\ target_signal_queue # <<>>
    /\ w_signal' = [w_signal EXCEPT ![w] = Head(target_signal_queue)]
    /\ target_signal_queue' = Tail(target_signal_queue)
    /\ wpc' = [wpc EXCEPT ![w] = "compute"]
    /\ signals_got' = [signals_got EXCEPT ![w] = @ + 1]
    /\ new_got' = [new_got EXCEPT ![w] =
                       @ + (IF Head(target_signal_queue).is_new_target THEN 1 ELSE 0)]
    /\ UNCHANGED <<args, cpc, target_idx, sim_info, is_new_target, mainLoop,
                   action_buffer, lists, trajectory, action_queue, obs_queue,
                   envVars, w_obs, pushed, produced, tick, ticks_done, calls,
                   collected, done_sent, err_hist,
                   obs_got, env_steps, step_hist, envObj>>

WPushAction(w) ==
    /\ wpc[w] = "compute"
    /\ LET action == ControllerAction(w, w_obs[w], w_signal[w].target_pos)
       IN  /\ action_queue' = Append(action_queue, WorkerAction(w, action))
           /\ produced' = [produced EXCEPT ![w] = action]
    /\ pushed' = [pushed EXCEPT ![w] = @ + 1]
    /\ wpc' = [wpc EXCEPT ![w] = WorkerNextPc(w_signal[w])]
    /\ UNCHANGED <<args, cpc, target_idx, sim_info, is_new_target, mainLoop,
                   action_buffer, lists, trajectory, target_signal_queue,
                   obs_queue, envVars, w_signal, w_obs, signals_got, new_got, tick,
                   ticks_done, calls, collected, done_sent, err_hist,
                   obs_got, env_steps, step_hist, envObj>>

WGetObs(w) ==
    /\ wpc[w] = "wait_obs"
    /\ obs_queue[w] # <<>>
    /\ w_obs' = [w_obs EXCEPT ![w] = Head(obs_queue[w])]
    /\ obs_queue' = [obs_queue EXCEPT ![w] = Tail(@)]
    /\ wpc' = [wpc EXCEPT ![w] = "wait_signal"]
    /\ obs_got' = [obs_got EXCEPT ![w] = @ + 1]
    /\ UNCHANGED <<args, cpc, target_idx, sim_info, is_new_target, mainLoop,
                   action_buffer, lists, trajectory, target_signal_queue,
                   action_queue, envVars, w_signal, workerHist, tick,
                   ticks_done, calls, collected, done_sent, err_hist,
                   env_steps, step_hist, envObj>>

Main ==
    \/ CValidate
    \/ CStart
    \/ CSetpointStart
    \/ CSetpointDone
    \/ CTracker
    \/ CSendSignal
    \/ CRecvAction
    \/ CStep
    \/ CSendObs
    \/ CConstruct
    \/ CJoin

Worker(w) ==
    \/ WGetSignal(w)
    \/ WPushAction(w)
    \/ WGetObs(w)

Next == Main \/ \E w \in WorkerSet : Worker(w)

Spec == Init /\ [][Next]_vars

\* Every process keeps running while it can take a step.
FairSpec ==
    /\ Spec
    /\ WF_vars(Main)
    /\ \A w \in WorkerSet : WF_vars(Worker(w))

(***************************************************************************)
(* The progress tracker on its own: the setpoint loop and the tick loop of *)
(* the main process with the rest of a tick reduced to the position the    *)
(* drones are left at.                                                     *)
(***************************************************************************)
TrackerInitArgs ==
    /\ env_idx \in EnvIdxAssignments
    /\ \E n \in 1..MaxTargets : eval_setpoints = SetpointList(n)
    /\ steps_per_setpoint \in {NoSteps} \cup (0..TrackerMaxSteps)
    /\ min_at_target_steps \in 0..MaxMinAt
    /\ error_threshold \in ErrorThresholds
    /\ start_method = "spawn"
    /\ device = "cuda"
    /\ num_envs = 3

TrackerInit ==
    /\ TrackerInitArgs /\ InitMain /\ InitEnv /\ InitWorkers /\ InitHistory
    /\ cpc = "setpoint"

TrackerTick ==
    /\ cpc = "loop"
    /\ ~sim_info.target_done
    /\ calls <= TrackerMaxSteps
    /\ \E noise \in NoiseDraws :
          sim_info' = UpdateSimulationProgress(
                          target_pos,
                          get_pos(base_pos, FALSE, obs_noise_std, noise),
                          steps_per_setpoint, min_at_target_steps,
                          error_threshold, sim_info)
    /\ \E outcome \in StepOutcomes : step(action_buffer, outcome)
    /\ tick' = tick + 1
    /\ calls' = calls + 1
    /\ err_hist' = Append(err_hist, PosError(target_pos, base_pos))
    /\ UNCHANGED <<args, cpc, target_idx, is_new_target, mainLoop,
                   action_buffer, lists, trajectory, queues,
                   workerVars, workerHist, ticks_done, collected, done_sent,
                   obs_got, env_steps, step_hist, obs_noise_std,
                   min_hover_steps, drone_colors, drone_colors_enabled, ret,
                   envKeep>>

TrackerNext == CSetpointStart \/ CSetpointDone \/ TrackerTick

TrackerSpec == TrackerInit /\ [][TrackerNext]_vars

(***************************************************************************)
(* Properties                                                              *)
(***************************************************************************)
WorkerSlots == {env_idx[w] : w \in WorkerSet}

\* The main process is past the collect phase of the current tick.
Collected == cpc \in {"step", "obs"}

\* No tick is in progress.
BetweenTicks == cpc \in {"loop", "setpoint", "join", "returned"}

\* The tracker has marked the final setpoint done.
FinalTick ==
    /\ sim_info.target_done
    /\ sim_info.current_target_idx = Len(eval_setpoints) - 1

\* C1: in every tick the collect phase consumes exactly num_workers
\* actions, exactly one from each worker: the slots consumed so far are
\* distinct worker slots, their number is the number of gets done, and once
\* the phase is over every worker has pushed one action per tick started
\* and no action is left over.
C1_OneActionPerWorkerPerTick ==
    /\ \A i, j \in 1..Len(collected) : i # j => collected[i] # collected[j]
    /\ \A i \in 1..Len(collected) : collected[i] \in WorkerSlots
    /\ cpc = "send" => collected = <<>>
    /\ cpc = "recv" => Len(collected) = received
    /\ (Collected \/ (BetweenTicks /\ tick > 0)) =>
          Len(collected) = Len(Workers)
    /\ Collected =>
          /\ action_queue = <<>>
          /\ \A w \in WorkerSet : pushed[w] = tick

\* The three actions of a later tick arrived in reverse declared order.
C1_Witness ==
    /\ cpc = "step"
    /\ tick >= 2
    /\ collected = <<env_idx["dd_mpc"], env_idx["rl"], env_idx["tracking"]>>

\* Workers that have dequeued a signal of the current tick.
GotThisTick == {w \in WorkerSet : signals_got[w] = tick}

\* C2: each worker receives exactly one target signal per tick: the signals
\* of a tick are shared out one to each worker, and no worker has dequeued
\* more signals than ticks started or fewer than ticks completed.
C2_OneSignalPerWorkerPerTick ==
    /\ \A w \in WorkerSet : ticks_done <= signals_got[w] /\ signals_got[w] <= tick
    /\ cpc = "send" =>
          Cardinality(GotThisTick) + Len(target_signal_queue) = sent
    /\ cpc \in {"recv", "step", "obs"} =>
          Cardinality(GotThisTick) + Len(target_signal_queue) = Len(Workers)
    /\ (Collected \/ BetweenTicks) =>
          /\ target_signal_queue = <<>>
          /\ GotThisTick = WorkerSet

\* In a later tick two workers hold their signal and the third signal is
\* still queued.
C2_Witness ==
    /\ cpc = "recv"
    /\ tick = 2
    /\ Cardinality(GotThisTick) = 2
    /\ Len(target_signal_queue) = 1

\* The run is stopped by the tick cap (MaxTicks), not by the program.
Capped == cpc = "loop" /\ ~sim_info.target_done /\ tick >= MaxTicks

\* C3: the rendezvous never deadlocks: before the main process returns,
\* the main process or at least one worker can take a step.
C3_NoDeadlock ==
    (cpc \notin {"returned", "raised"} /\ ~Capped) => ENABLED Next

\* The main process blocks on the action queue while a worker computes.
C3_Witness ==
    /\ cpc = "recv"
    /\ action_queue = <<>>
    /\ received = 2
    /\ \E w \in WorkerSet : wpc[w] = "compute"

\* C4: tick alignment: at the end of every tick the three accumulators have
\* the same length, the number of ticks, and the returned trajectory has
\* that many entries for every agent slot and that many setpoints.
C4_TickAlignment ==
    /\ BetweenTicks =>
          /\ Len(normalized_action_list) = tick
          /\ Len(drone_pos_list) = tick
          /\ Len(target_pos_list) = tick
          /\ ticks_done = tick
    /\ cpc \in {"join", "returned"} =>
          /\ \A s \in Slots :
                /\ Len(trajectory.control_inputs[s]) = tick
                /\ Len(trajectory.system_outputs[s]) = tick
          /\ Len(trajectory.system_setpoint) = tick

\* A stabilization-mode run over two setpoints returned after three ticks.
C4_Witness ==
    /\ cpc = "returned"
    /\ steps_per_setpoint = NoSteps
    /\ Len(eval_setpoints) = 2
    /\ tick = 3

\* The worker assigned to an agent slot.
WorkerOfSlot(s) == CHOOSE w \in WorkerSet : env_idx[w] = s

\* C5: action routing: every action consumed in a tick sits in the buffer
\* row of the slot of the worker that produced it, whatever the arrival
\* order; after the collect phase this holds for all three workers.
C5_ActionRouting ==
    /\ cpc \in {"recv", "step"} =>
          \A i \in 1..Len(collected) :
              action_buffer[collected[i]] = produced[WorkerOfSlot(collected[i])]
    /\ cpc = "step" =>
          \A w \in WorkerSet : action_buffer[env_idx[w]] = produced[w]

\* Reverse declared arrival order, three different actions, and a slot
\* assignment that differs from the creation order of the workers.
C5_Witness ==
    /\ cpc = "step"
    /\ collected = <<env_idx["dd_mpc"], env_idx["rl"], env_idx["tracking"]>>
    /\ env_idx["tracking"] = 2
    /\ Cardinality({produced[w] : w \in WorkerSet}) = 3

\* C6: the main process sends all the signals of a tick before it receives
\* any action of it, and no worker is more than one tick ahead: a worker
\* has pushed at most as many actions as ticks started and at least as many
\* as ticks completed.
C6_SendBeforeReceive ==
    /\ \A w \in WorkerSet : ticks_done <= pushed[w] /\ pushed[w] <= tick
    /\ collected # <<>> => sent = Len(Workers)
    /\ cpc = "send" => collected = <<>> /\ sent < Len(Workers)

\* One worker has pushed the action of tick 2 before another one has.
C6_Witness ==
    /\ tick = 2
    /\ ticks_done = 1
    /\ \E w1, w2 \in WorkerSet : pushed[w1] = 2 /\ pushed[w2] = 1

\* C7: a target signal carries done = TRUE only on the final tick of the
\* final setpoint: queued signals and the signal a worker holds carry
\* done exactly when they belong to that tick, all num_workers signals of
\* that tick carry it, and no signal follows them.
C7_DoneOnlyOnFinalTick ==
    /\ \A i \in 1..Len(target_signal_queue) :
          target_signal_queue[i].done = FinalTick
    /\ \A w \in WorkerSet :
          signals_got[w] > 0 =>
              (w_signal[w].done = (FinalTick /\ signals_got[w] = tick))
    /\ done_sent = IF FinalTick
                   THEN (IF cpc = "send" THEN sent ELSE Len(Workers))
                   ELSE 0

\* Every worker holds the done signal of the last tick of a two-setpoint run.
C7_Witness ==
    /\ Len(eval_setpoints) = 2
    /\ tick >= 2
    /\ \A w \in WorkerSet : w_signal[w].done /\ signals_got[w] = tick

\* Setpoints whose first tick has started.
SetpointsBegun ==
    IF calls >= 1 THEN sim_info.current_target_idx + 1
                  ELSE sim_info.current_target_idx

\* C8: is_new_target is TRUE exactly in the signals of the first tick of a
\* setpoint, so every worker sees it once per setpoint.
C8_NewTargetOncePerSetpoint ==
    /\ \A i \in 1..Len(target_signal_queue) :
          target_signal_queue[i].is_new_target = (calls = 1)
    /\ \A w \in WorkerSet :
          /\ SetpointsBegun - 1 <= new_got[w] /\ new_got[w] <= SetpointsBegun
          /\ (signals_got[w] = tick /\ calls >= 1) =>
                /\ w_signal[w].is_new_target = (calls = 1)
                /\ new_got[w] = SetpointsBegun

\* After a first setpoint of two ticks, every worker holds the signal of the
\* first tick of the second setpoint and has seen two new targets.
C8_Witness ==
    /\ sim_info.current_target_idx = 1
    /\ calls = 1
    /\ tick = 3
    /\ \A w \in WorkerSet :
          signals_got[w] = tick /\ w_signal[w].is_new_target /\ new_got[w] = 2

\* The run has returned its trajectory and every worker has left its loop
\* after pushing the action of the tick whose signal carried done.
RunReturned ==
    /\ cpc = "returned"
    /\ Len(trajectory.system_setpoint) = tick
    /\ \A w \in WorkerSet :
          wpc[w] = "terminated" /\ w_signal[w].done /\ pushed[w] = tick

\* C9: once the tracker has marked the final setpoint done, every worker
\* eventually gets a done signal, pushes its action and terminates, the
\* join returns and the run returns a trajectory.
C9_RunTerminates == (~sim_info.in_progress) ~> RunReturned

\* A run over two setpoints has returned.
C9_Witness == RunReturned /\ Len(eval_setpoints) = 2

\* C10: fixed-duration mode with steps_per_setpoint = n >= 1: target_done
\* is false after each of the first n - 1 tracker calls after a reset and
\* true after the n-th, whatever the target and drone positions.
C10_FixedDuration ==
    steps_per_setpoint >= 1 =>
        /\ calls <= steps_per_setpoint
        /\ sim_info.target_done = (calls = steps_per_setpoint)

\* The fifth call with steps_per_setpoint = 5 marked the target done while a
\* drone was away from the target.
C10_Witness ==
    /\ steps_per_setpoint = 5
    /\ calls = 5
    /\ sim_info.target_done
    /\ cpc = "loop"
    /\ \E s \in Slots : base_pos[s] # target_pos

\* The position errors seen by the tracker calls since the last reset.
ErrorsSinceReset == SubSeq(err_hist, Len(err_hist) - calls + 1, Len(err_hist))

\* Length of the longest suffix of errs whose errors are all below thr.
RECURSIVE TrailingInThreshold(_, _)
TrailingInThreshold(errs, thr) ==
    IF errs = <<>> \/ ~(errs[Len(errs)] < thr)
    THEN 0
    ELSE 1 + TrailingInThreshold(SubSeq(errs, 1, Len(errs) - 1), thr)

\* C11: stabilization mode: every call increments at_target_steps when the
\* largest position error is strictly below error_threshold and resets it to
\* 0 otherwise, and target_done is true from the first call at which
\* at_target_steps equals min_at_target_steps.
C11_Stabilization ==
    (steps_per_setpoint = NoSteps /\ calls >= 1) =>
        /\ sim_info.at_target_steps =
              TrailingInThreshold(ErrorsSinceReset, error_threshold)
        /\ sim_info.target_done =
              (sim_info.at_target_steps = min_at_target_steps)

\* The part of C11 that the code satisfies: the counter rule for every
\* min_at_target_steps, and the done rule for min_at_target_steps >= 1.
C11_StabilizationFromOne ==
    (steps_per_setpoint = NoSteps /\ calls >= 1) =>
        /\ sim_info.at_target_steps =
              TrailingInThreshold(ErrorsSinceReset, error_threshold)
        /\ min_at_target_steps >= 1 =>
              sim_info.target_done =
                  (sim_info.at_target_steps = min_at_target_steps)

\* C12: in_progress starts true, is true throughout every non-final
\* setpoint, is false exactly from the tracker call that marks the final
\* setpoint done, and is never set back to true.
C12_InProgress ==
    /\ [](sim_info.in_progress = ~FinalTick)
    /\ [][sim_info.in_progress' => sim_info.in_progress]_vars

\* A non-final setpoint has just been marked done in stabilization mode
\* and the run is still in progress.
C12_Witness ==
    /\ steps_per_setpoint = NoSteps
    /\ sim_info.current_target_idx = 0
    /\ Len(eval_setpoints) = 2
    /\ sim_info.target_done
    /\ sim_info.in_progress

\* C13: zero edge case: with steps_per_setpoint = 0, or with
\* min_at_target_steps = 0 in stabilization mode, the first tracker call
\* after the reset marks the target done.
C13_ZeroMarksDoneOnFirstCall ==
    (/\ \/ steps_per_setpoint = 0
        \/ steps_per_setpoint = NoSteps /\ min_at_target_steps = 0
     /\ calls >= 1) => sim_info.target_done

\* Nothing of the run has happened: no worker started, nothing on any
\* queue, the environment target not updated, the simulation not stepped and
\* nothing recorded.
NothingStarted ==
    /\ \A w \in WorkerSet : wpc[w] = "not_started"
    /\ target_signal_queue = <<>>
    /\ action_queue = <<>>
    /\ \A w \in WorkerSet : obs_queue[w] = <<>>
    /\ commands = [s \in Slots |-> 0]
    /\ base_pos = [s \in Slots |-> 0]
    /\ tick = 0
    /\ ticks_done = 0
    /\ target_pos_list = <<>>
    /\ trajectory = NoTrajectory

\* C14: when the start method is not "spawn" (also when none is set) the
\* function raises at its first statement: the main process is never past
\* the validation, and no worker is started, no queue used, the environment
\* target not updated and the simulation not stepped.
C14_SpawnFailFast ==
    start_method # "spawn" =>
        /\ cpc \in {"validate", "raised"}
        /\ NothingStarted

\* The error has been raised for an unset start method.
C14_Witness ==
    /\ start_method = "none"
    /\ cpc = "raised"

\* C18: current_target_idx never decreases, always lies in
\* 0..num_targets - 1, and changes only in the step that starts a setpoint.
C18_TargetIdxMonotone ==
    /\ [](/\ 0 <= sim_info.current_target_idx
          /\ sim_info.current_target_idx <= sim_info.num_targets - 1)
    /\ [][/\ sim_info.current_target_idx' >= sim_info.current_target_idx
          /\ sim_info.current_target_idx' # sim_info.current_target_idx =>
                (cpc = "setpoint" /\ cpc' = "loop")]_vars

\* The second setpoint is being simulated: the index has advanced once and
\* a tick of it has been stepped.
C18_Witness ==
    /\ sim_info.current_target_idx = 1
    /\ sim_info.num_targets = 2
    /\ cpc = "obs"

\* C20: in every tick the rows passed to the simulation are, for the
\* tracking and the data-driven MPC worker, the worker's action mapped once
\* by y = y_min + (x - x_min) * (y_max - y_min) / (x_max - x_min) from the
\* action bounds to [-1, 1], and for the RL worker its action unchanged.
C20_NormalizedRows ==
    cpc = "obs" =>
        /\ \A w \in WorkerSet \ {"rl"} :
              action_buffer[env_idx[w]] =
                  CanonMin + ((produced[w] - ActionMin) * (CanonMax - CanonMin))
                                 \div (ActionMax - ActionMin)
        /\ action_buffer[env_idx["rl"]] = produced["rl"]

\* A second tick has been stepped with a non-zero RL action and non-RL
\* actions away from the middle of their range.
C20_Witness ==
    /\ cpc = "obs"
    /\ tick = 2
    /\ produced["rl"] # 0
    /\ produced["tracking"] = 6
    /\ produced["dd_mpc"] = 8

(***************************************************************************)
(* Runs called with a malformed role -> agent slot mapping.                *)
(***************************************************************************)
\* Two roles on the same slot, the RL slot out of range, and a non-RL slot
\* out of range (the environment has the slots of Slots).
MalformedAssignments ==
    { [w \in WorkerSet |-> CASE w = "tracking" -> 0 [] w = "rl" -> 0 [] OTHER -> 2],
      [w \in WorkerSet |-> CASE w = "tracking" -> 0 [] w = "rl" -> 3 [] OTHER -> 2],
      [w \in WorkerSet |-> CASE w = "tracking" -> 3 [] w = "rl" -> 1 [] OTHER -> 2] }

ConfigInitArgs ==
    /\ env_idx \in MalformedAssignments
    /\ \E n \in 1..MaxTargets : eval_setpoints = SetpointList(n)
    /\ steps_per_setpoint \in {NoSteps} \cup (1..MaxSteps)
    /\ steps_per_setpoint * Len(eval_setpoints) <= MaxTicks
    /\ min_at_target_steps \in 1..MaxMinAt
    /\ steps_per_setpoint # NoSteps => min_at_target_steps = 1
    /\ error_threshold \in ErrorThresholds
    /\ start_method = "spawn"
    /\ device = "cuda"
    /\ num_envs = 3

ConfigInit ==
    /\ ConfigInitArgs /\ InitMain /\ InitEnv /\ InitWorkers /\ InitHistory
    /\ cpc = "validate"

ConfigSpec == ConfigInit /\ [][Next]_vars

\* The mapping assigns two roles to one slot or a role to no slot of the
\* environment.
Malformed ==
    \/ \E w1, w2 \in WorkerSet : w1 # w2 /\ env_idx[w1] = env_idx[w2]
    \/ \E w \in WorkerSet : env_idx[w] \notin Slots

\* C15: with a malformed role -> agent slot mapping the function raises
\* before any worker process is started: no worker ever leaves its
\* not-started state and the run never gets past its start.
C15_MalformedMappingRaisesEarly ==
    Malformed =>
        /\ \A w \in WorkerSet : wpc[w] = "not_started"
        /\ cpc \in {"validate", "start", "raised"}

(***************************************************************************)
(* Runs in which a worker breaks the protocol: it tags an action with an   *)
(* identity that is not its own slot.                                      *)
(***************************************************************************)
\* The workers that may break the protocol.
FaultyWorkers == {"dd_mpc"}

\* Another slot of the environment, or the first index past the slots.
WrongIdentities(w) == (Slots \cup {Cardinality(Slots)}) \ {env_idx[w]}

\* The worker computes its action and puts it on the action queue under a
\* wrong identity.
WPushWrongIdentity(w) ==
    /\ wpc[w] = "compute"
    /\ LET action == ControllerAction(w, w_obs[w], w_signal[w].target_pos)
       IN  /\ \E id \in WrongIdentities(w) :
                  action_queue' = Append(action_queue, <<id, action>>)
           /\ produced' = [produced EXCEPT ![w] = action]
    /\ pushed' = [pushed EXCEPT ![w] = @ + 1]
    /\ wpc' = [wpc EXCEPT ![w] = WorkerNextPc(w_signal[w])]
    /\ UNCHANGED <<args, cpc, target_idx, sim_info, is_new_target, mainLoop,
                   action_buffer, lists, trajectory, target_signal_queue,
                   obs_queue, envVars, w_signal, w_obs, signals_got, new_got, tick,
                   ticks_done, calls, collected, done_sent, err_hist,
                   obs_got, env_steps, step_hist, envObj>>

FaultInitArgs ==
    /\ env_idx = [w \in WorkerSet |->
                     CASE w = "tracking" -> 0 [] w = "rl" -> 1 [] OTHER -> 2]
    /\ eval_setpoints = SetpointList(1)
    /\ steps_per_setpoint \in 1..MaxSteps
    /\ min_at_target_steps = 1
    /\ error_threshold \in ErrorThresholds
    /\ start_method = "spawn"
    /\ device = "cuda"
    /\ num_envs = 3

FaultInit ==
    /\ FaultInitArgs /\ InitMain /\ InitEnv /\ InitWorkers /\ InitHistory
    /\ cpc = "validate"

FaultNext == Next \/ \E w \in FaultyWorkers : WPushWrongIdentity(w)

FaultSpec == FaultInit /\ [][FaultNext]_vars

LiveStates == {"wait_signal", "compute", "wait_obs"}

\* The worker process ends without pushing another action; one worker
\* crashes in a run.
WCrash(w) ==
    /\ wpc[w] \in LiveStates
    /\ \A v \in WorkerSet : wpc[v] # "crashed"
    /\ wpc' = [wpc EXCEPT ![w] = "crashed"]
    /\ UNCHANGED <<args, cpc, target_idx, sim_info, is_new_target, mainLoop,
                   action_buffer, lists, trajectory, queues, envVars,
                   w_signal, w_obs, workerHist, tick, ticks_done, calls,
                   collected, done_sent, err_hist,
                   obs_got, env_steps, step_hist, envObj>>

CrashInitArgs ==
    /\ env_idx \in EnvIdxAssignments
    /\ \E n \in 1..MaxTargets : eval_setpoints = SetpointList(n)
    /\ steps_per_setpoint \in {NoSteps} \cup (1..MaxSteps)
    /\ steps_per_setpoint * Len(eval_setpoints) <= MaxTicks
    /\ min_at_target_steps \in 1..MaxMinAt
    /\ steps_per_setpoint # NoSteps => min_at_target_steps = 1
    /\ error_threshold \in ErrorThresholds
    /\ start_method = "spawn"
    /\ device = "cuda"
    /\ num_envs = 3

CrashInit ==
    /\ CrashInitArgs /\ InitMain /\ InitEnv /\ InitWorkers /\ InitHistory
    /\ cpc = "validate"

CrashNext == Next \/ \E w \in WorkerSet : WCrash(w)

CrashSpec == CrashInit /\ [][CrashNext]_vars

Crashed == {w \in WorkerSet : wpc[w] = "crashed"}

\* No process of the run can take a step any more.
Quiescent == ~ENABLED CrashNext

\* With worker w crashed before its action of tick pushed[w] + 1: the main
\* process gets no further than the collect phase of that tick, steps the
\* simulation and records actions and positions for earlier ticks only,
\* never leaves the setpoint loop, and the target signal w did not take
\* stays on the queue.
MainStuckBehind(w) ==
    /\ tick <= pushed[w] + 1
    /\ cpc \in {"step", "obs"} => tick <= pushed[w]
    /\ ticks_done <= pushed[w]
    /\ Len(normalized_action_list) <= pushed[w]
    /\ Len(drone_pos_list) <= pushed[w]
    /\ cpc \notin {"join", "returned"}
    /\ trajectory = NoTrajectory
    /\ (cpc = "recv" /\ signals_got[w] < tick) => target_signal_queue # <<>>
    /\ (Quiescent /\ ~Capped) =>
          /\ cpc = "recv"
          /\ tick = pushed[w] + 1
          /\ action_queue = <<>>

\* C17 as stated: after a crash the main process is stuck in the collect
\* phase of the crashed worker's next tick, and once nothing moves any more
\* every surviving worker is blocked on one of its inbound queues.
C17_CrashDeadlocksRun ==
    \A w \in Crashed :
        /\ MainStuckBehind(w)
        /\ (Quiescent /\ ~Capped) =>
              \A v \in WorkerSet \ Crashed :
                  wpc[v] \in {"wait_signal", "wait_obs"}

\* C17, amended: as above, but a surviving worker is blocked on its
\* observation queue only when the stuck tick is not the final one; on the
\* final tick it has received done = TRUE, pushed its action and left its
\* loop. The target of the stuck tick is already on the setpoint list.
C17_CrashDeadlocksRunAmended ==
    \A w \in Crashed :
        /\ MainStuckBehind(w)
        /\ (Quiescent /\ ~Capped) =>
              /\ Len(target_pos_list) = tick
              /\ \A v \in WorkerSet \ Crashed :
                    \/ wpc[v] = "wait_obs" /\ ~w_signal[v].done
                    \/ wpc[v] = "terminated" /\ w_signal[v].done

\* One worker crashed before taking its signal of the second tick: the two
\* survivors have pushed and wait for an observation, the main process
\* waits for the third action, and the third signal is still queued.
C17_Witness ==
    /\ Cardinality(Crashed) = 1
    /\ Quiescent
    /\ cpc = "recv"
    /\ tick = 2
    /\ received = 2
    /\ Len(target_signal_queue) = 1
    /\ \A v \in WorkerSet \ Crashed : wpc[v] = "wait_obs" /\ pushed[v] = 2

(***************************************************************************)
(* End-to-end runs in stabilization mode with a single setpoint, on an     *)
(* environment that may already be at the target when the run starts.      *)
(***************************************************************************)
E2EInitArgs ==
    /\ env_idx \in EnvIdxAssignments
    /\ eval_setpoints = SetpointList(1)
    /\ steps_per_setpoint = NoSteps
    /\ min_at_target_steps \in 1..MaxMinAt
    /\ error_threshold \in ErrorThresholds
    /\ start_method = "spawn"
    /\ device = "cuda"
    /\ num_envs = 3

\* The positions the drones were left at by the steps before the run.
E2EInitEnv ==
    /\ base_pos \in StepOutcomes
    /\ commands = [s \in Slots |-> 0]
    /\ InitEnvObj

E2EInit ==
    /\ E2EInitArgs /\ InitMain /\ E2EInitEnv /\ InitWorkers /\ InitHistory
    /\ cpc = "validate"

E2ESpec == E2EInit /\ [][Next]_vars

\* Every tracker call so far saw a position error below the threshold.
AlwaysAtTarget ==
    \A i \in 1..Len(err_hist) : err_hist[i] < error_threshold

\* C19: stabilization mode, one setpoint, true position within the
\* threshold of the target at every tracker call from tick 1 on: the target
\* is done exactly at tick min_at_target_steps, no further tick starts, and
\* the returned setpoints are min_at_target_steps copies of the target.
C19_EndToEndStabilization ==
    (AlwaysAtTarget /\ min_at_target_steps >= 1) =>
        /\ tick <= min_at_target_steps
        /\ tick >= 1 => (sim_info.target_done <=> tick = min_at_target_steps)
        /\ cpc \in {"join", "returned"} =>
              /\ tick = min_at_target_steps
              /\ ticks_done = min_at_target_steps
              /\ trajectory.system_setpoint =
                    [i \in 1..min_at_target_steps |-> eval_setpoints[1]]

\* min_at_target_steps = 2, the drones at the target in both ticks, and
\* the run returned with two copies of the target.
C19_Witness ==
    /\ cpc = "returned"
    /\ min_at_target_steps = 2
    /\ AlwaysAtTarget
    /\ Len(err_hist) = 2
    /\ trajectory.system_setpoint = <<eval_setpoints[1], eval_setpoints[1]>>

(***************************************************************************)
(* Runs on either device of the environment.                               *)
(***************************************************************************)
Devices == {"cuda", "cpu"}

DeviceInitArgs ==
    /\ env_idx \in EnvIdxAssignments
    /\ \E n \in 1..MaxTargets : eval_setpoints = SetpointList(n)
    /\ steps_per_setpoint \in 1..MaxSteps
    /\ steps_per_setpoint * Len(eval_setpoints) <= MaxTicks
    /\ min_at_target_steps = 1
    /\ error_threshold \in ErrorThresholds
    /\ start_method = "spawn"
    /\ device \in Devices
    /\ num_envs = 3

DeviceInit ==
    /\ DeviceInitArgs /\ InitMain /\ InitEnv /\ InitWorkers /\ InitHistory
    /\ cpc = "validate"

DeviceSpec == DeviceInit /\ [][Next]_vars

\* C29: every accumulator entry is a snapshot of its own tick: entry t of
\* the action list is the batch stepped in tick t and entry t of the
\* position list is the true position reached by that step, whatever later
\* ticks write; the returned control inputs and system outputs are derived
\* from these, on either device.
C29_EntriesAreSnapshots ==
    /\ \A t \in 1..Len(normalized_action_list) :
          normalized_action_list[t] = step_hist[t].applied
    /\ \A t \in 1..Len(drone_pos_list) :
          drone_pos_list[t] = step_hist[t].pos
    /\ cpc \in {"join", "returned"} =>
          \A s \in Slots : \A t \in 1..Len(step_hist) :
              /\ trajectory.control_inputs[s][t] =
                    ControlInput(step_hist[t].applied[s])
              /\ trajectory.system_outputs[s][t] = step_hist[t].pos[s]

(***************************************************************************)
(* Normalization and its inverse                                           *)
(***************************************************************************)
\* Action bound pairs (min, max) with min < max.
BoundValues == -2..6
BoundPairs == {b \in BoundValues \X BoundValues : b[1] < b[2]}

\* lines 306-312: the affine map of [min, max] onto [-1, 1]
normalize(x, min, max) == linear_interpolate(x, min, max, CanonMin, CanonMax)

\* lines 411-423 (after the clamp): the affine map of [-1, 1] back onto
\* [min, max]
inverse_normalize(y, min, max) ==
    linear_interpolate(y, CanonMin, CanonMax, min, max)

\* The values of [min, max] whose image is a whole number of half-units:
\* on these the integer quotient of linear_interpolate is the exact one.
Representable(min, max) ==
    {x \in min..max : ((x - min) * (CanonMax - CanonMin)) % (max - min) = 0}

RoundTrip ==
    \A b \in BoundPairs : \A x \in Representable(b[1], b[2]) :
        inverse_normalize(normalize(x, b[1], b[2]), b[1], b[2]) = x

NonRlWorkers == WorkerSet \ {"rl"}

\* C21: inverse_normalize(normalize(x, min, max), min, max) = x for every
\* bound pair min < max and every x in [min, max]; hence, once the run has
\* built its trajectory, the control input recorded at tick t for a non-RL
\* worker whose action lay within its bounds is the action that worker sent
\* in tick t.
C21_RoundTripRecorded ==
    /\ RoundTrip
    /\ cpc \in {"join", "returned"} =>
          \A w \in NonRlWorkers : \A t \in 1..Len(step_hist) :
              step_hist[t].actions[w] \in ActionMin..ActionMax =>
                  trajectory.control_inputs[env_idx[w]][t] =
                      step_hist[t].actions[w]

(***************************************************************************)
(* Runs on an environment with one agent slot more than there are workers. *)
(***************************************************************************)
SpareNumEnvs == num_processes + 1

SpareInitArgs ==
    /\ env_idx \in EnvIdxAssignments
    /\ \E n \in 1..MaxTargets : eval_setpoints = SetpointList(n)
    /\ steps_per_setpoint \in 1..MaxSteps
    /\ steps_per_setpoint * Len(eval_setpoints) <= MaxTicks
    /\ min_at_target_steps = 1
    /\ error_threshold \in ErrorThresholds
    /\ start_method = "spawn"
    /\ device = "cuda"
    /\ num_envs = SpareNumEnvs

SpareInit ==
    /\ SpareInitArgs /\ InitMain /\ InitEnv /\ InitWorkers /\ InitHistory
    /\ cpc = "validate"

SpareSpec == SpareInit /\ [][Next]_vars

\* The batch a buffer zeroed at the start of the tick would hold at the
\* step: the row of each worker's slot from the action it sent this tick,
\* every other row from zero.
FreshBatch(actions) ==
    NormalizeBuffer([s \in Slots |->
                        IF s \in WorkerSlots THEN actions[WorkerOfSlot(s)]
                        ELSE 0],
                    non_rl_env_mask)

\* C30: the action buffer is rebuilt fresh each tick: the batch passed to
\* step in tick t is determined by the actions received in tick t alone, and
\* no row, the rows of slots without a worker included, carries over or is
\* computed from what the buffer held in tick t-1.
C30_BufferRebuiltEachTick ==
    \A t \in 1..Len(step_hist) :
        step_hist[t].applied = FreshBatch(step_hist[t].actions)

(***************************************************************************)
(* Queue occupancy                                                         *)
(***************************************************************************)
\* The workers that have not yet taken the target signal of the current tick.
AwaitingSignal == {w \in WorkerSet : signals_got[w] = tick - 1}

\* The workers with an action on the action queue.
PendingActionSlots == {action_queue[i][1] : i \in 1..Len(action_queue)}

\* C23: never more than one pending message per direction per worker: each
\* observation queue holds at most one message, the action queue at most one
\* action of each worker (so at most num_processes), all pushed in the
\* current tick, and the target-signal queue at most num_processes signals,
\* all of the current tick (no more than there are workers still to take
\* this tick's signal).
C23_OnePendingPerDirection ==
    /\ \A w \in WorkerSet : Len(obs_queue[w]) <= 1
    /\ Len(action_queue) <= num_processes
    /\ Cardinality(PendingActionSlots) = Len(action_queue)
    /\ \A w \in WorkerSet :
          env_idx[w] \in PendingActionSlots => pushed[w] = tick
    /\ Len(target_signal_queue) <= num_processes
    /\ Len(target_signal_queue) <= Cardinality(AwaitingSignal)
    /\ \A w \in WorkerSet : signals_got[w] \in {tick - 1, tick} \cap Nat

\* A second tick in which all three actions are pending at once.
C23_Witness ==
    /\ tick = 2
    /\ Len(action_queue) = num_processes
    /\ \A w \in WorkerSet : obs_got[w] = 1

(***************************************************************************)
(* The order of the steps of a tick                                        *)
(***************************************************************************)
\* Counts that pin each step of a tick to its place: the environment has
\* been stepped once per completed tick (once more while the observations
\* of the current tick are still to be sent), a step only happens with all
\* of the tick's actions in the buffer, and every observation sent belongs
\* to a tick that has been stepped.
TickCounts ==
    /\ env_steps = ticks_done + (IF cpc = "obs" THEN 1 ELSE 0)
    /\ tick \in {env_steps, env_steps + 1}
    /\ cpc \in {"send", "recv", "step"} => tick = env_steps + 1
    /\ cpc \in {"recv", "step", "obs"} => sent = num_processes
    /\ cpc = "step" =>
          /\ Len(collected) = num_processes
          /\ \A w \in WorkerSet :
                pushed[w] = tick /\ action_buffer[env_idx[w]] = produced[w]
    /\ \A w \in WorkerSet : obs_got[w] + Len(obs_queue[w]) = ticks_done
    /\ Len(target_pos_list) = tick
    /\ Len(normalized_action_list) = ticks_done
    /\ Len(drone_pos_list) = ticks_done

\* What the main process may do from each position of a tick.
TickSteps ==
    /\ (cpc = "loop" /\ cpc' # cpc) =>
          \/ /\ cpc' = "send"
             /\ calls' = calls + 1
             /\ target_pos_list' = Append(target_pos_list, target_pos)
             /\ tick' = tick + 1
          \/ cpc' = "setpoint" /\ sim_info.target_done
    /\ (cpc = "send" /\ sent' # sent) =>
          /\ sent' = sent + 1
          /\ Len(target_signal_queue') = Len(target_signal_queue) + 1
          /\ cpc' = IF sent' = num_processes THEN "recv" ELSE "send"
    /\ (cpc = "recv" /\ received' # received) =>
          /\ received' = received + 1
          /\ cpc' = IF received' = num_processes THEN "step" ELSE "recv"
    /\ cpc = "step" => cpc' \in {"step", "obs"}
    /\ cpc = "obs" => cpc' \in {"obs", "loop"}
    /\ env_steps' # env_steps =>
          /\ cpc = "step" /\ cpc' = "obs"
          /\ env_steps' = env_steps + 1
          /\ action_buffer' = NormalizeBuffer(action_buffer, non_rl_env_mask)
          /\ \A w \in WorkerSet : obs_queue'[w] = obs_queue[w]
    /\ ticks_done' # ticks_done =>
          /\ cpc = "obs" /\ cpc' = "loop"
          /\ \A w \in WorkerSet : Len(obs_queue'[w]) = Len(obs_queue[w]) + 1
          /\ normalized_action_list' = Append(normalized_action_list, action_buffer)
          /\ drone_pos_list' = Append(drone_pos_list, base_pos)
    /\ \A w \in WorkerSet :
          Len(obs_queue'[w]) > Len(obs_queue[w]) => cpc = "obs"

\* C28: in each tick the main process advances the tracker and records the
\* target, sends num_processes signals, receives num_processes actions,
\* normalizes the non-RL rows and steps the environment, then sends one
\* observation to each worker and records the batched action and the true
\* position, each once and in this order; the environment is stepped once
\* per tick, never before all of the tick's actions are in the buffer, and
\* no observation of a tick is sent before the step of that tick.
C28_TickOrder == []TickCounts /\ [][TickSteps]_vars

\* The second tick has been stepped and its observations are still to send.
C28_Witness ==
    /\ cpc = "obs"
    /\ env_steps = 2
    /\ ticks_done = 1
    /\ \A w \in WorkerSet : obs_queue[w] = <<>>

(***************************************************************************)
(* Observations                                                            *)
(***************************************************************************)
\* What the step of tick k left for worker w to observe.
OwnObservation(w, k) ==
    IF w = "rl"
    THEN step_hist[k].cmds[env_idx[w]] - step_hist[k].pos[env_idx[w]]
    ELSE step_hist[k].pos[env_idx[w]]

\* One observation per worker per stepped tick, taken at most once, by its
\* own worker, before that worker computes its next action.
ObservationFlow ==
    \A w \in WorkerSet :
        /\ obs_got[w] + Len(obs_queue[w]) = ticks_done
        /\ ticks_done <= env_steps
        /\ Len(obs_queue[w]) <= 1
        /\ obs_queue[w] # <<>> => Head(obs_queue[w]) = OwnObservation(w, ticks_done)
        /\ obs_got[w] >= 1 => w_obs[w] = OwnObservation(w, obs_got[w])
        /\ wpc[w] = "compute" => obs_got[w] = pushed[w]
        /\ pushed[w] \in {obs_got[w], obs_got[w] + 1}

\* C22: every observation is produced once per tick per worker after the
\* tick's step and consumed exactly once by its own worker before that
\* worker computes its next action; every observation produced, those of
\* the final tick included, is consumed: none is left when the run returns.
C22_ObservationsConsumed ==
    /\ ObservationFlow
    /\ cpc = "returned" =>
          \A w \in WorkerSet : obs_queue[w] = <<>> /\ obs_got[w] = ticks_done

\* C22 (amended): as above for every tick but the final one; the
\* observations of the final tick are produced and never consumed: when the
\* run returns each worker has terminated with exactly one observation left
\* in its queue.
C22_ObservationsConsumedButLast ==
    /\ ObservationFlow
    /\ cpc = "returned" =>
          \A w \in WorkerSet :
              /\ wpc[w] = "terminated"
              /\ Len(obs_queue[w]) = 1
              /\ obs_got[w] = ticks_done - 1

\* A run of at least two ticks has returned: the first tick's observations
\* were consumed, the final tick's are left.
C22_Witness ==
    /\ cpc = "returned"
    /\ ticks_done >= 2
    /\ \A w \in WorkerSet : obs_got[w] >= 1 /\ obs_queue[w] # <<>>

(***************************************************************************)
(* The recorder on its own: construct_trajectory_data applied to           *)
(* accumulators whose batched actions may lie outside [-1, 1] (an RL       *)
(* policy output, or a controller action outside the action bounds).       *)
(***************************************************************************)
RecordedValues == (CanonMin - 1)..(CanonMax + 1)

RecordedLists(n) == [1..n -> [Slots -> RecordedValues]]

RecorderInit ==
    /\ env_idx \in EnvIdxAssignments
    /\ eval_setpoints = SetpointList(1)
    /\ steps_per_setpoint \in 1..MaxRecorded
    /\ min_at_target_steps = 1
    /\ error_threshold \in ErrorThresholds
    /\ start_method = "spawn"
    /\ device = "cuda"
    /\ num_envs = 3
    /\ target_idx = num_setpoints
    /\ sim_info = NewSimInfo(num_setpoints)
    /\ is_new_target = FALSE
    /\ sent = num_processes
    /\ received = num_processes
    /\ action_buffer = [s \in Slots |-> 0]
    /\ normalized_action_list \in RecordedLists(steps_per_setpoint)
    /\ drone_pos_list = [t \in 1..steps_per_setpoint |-> [s \in Slots |-> 0]]
    /\ target_pos_list = [t \in 1..steps_per_setpoint |-> eval_setpoints[1]]
    /\ trajectory = NoTrajectory
    /\ target_signal_queue = <<>>
    /\ action_queue = <<>>
    /\ obs_queue = [w \in WorkerSet |-> <<>>]
    /\ InitEnv /\ InitWorkers /\ InitHistory
    /\ cpc = "setpoint"

RecorderNext == CConstruct

RecorderSpec == RecorderInit /\ [][RecorderNext]_vars

\* C24: the recorder clamps the normalized actions to [-1, 1] before it maps
\* them back, so every control input of the returned trajectory lies within
\* the action bounds, also when the recorded action was outside [-1, 1]: a
\* value below -1 is recorded as the lower bound, a value above 1 as the
\* upper bound, a value in between as its inverse normalization.
C24_ControlInputsWithinBounds ==
    cpc = "join" =>
        \A s \in Slots :
            /\ Len(trajectory.control_inputs[s]) = Len(normalized_action_list)
            /\ \A t \in 1..Len(normalized_action_list) :
                  LET y == normalized_action_list[t][s]
                      u == trajectory.control_inputs[s][t]
                  IN  /\ u \in ActionMin..ActionMax
                      /\ y <= CanonMin => u = ActionMin
                      /\ y >= CanonMax => u = ActionMax
                      /\ y \in CanonMin..CanonMax =>
                            u = inverse_normalize(y, ActionMin, ActionMax)

\* A trajectory built from a batch with one action below -1 and one above 1.
C24_Witness ==
    /\ cpc = "join"
    /\ \E s \in Slots : normalized_action_list[1][s] < CanonMin
    /\ \E s \in Slots : normalized_action_list[1][s] > CanonMax

(***************************************************************************)
(* HoverEnv on its own: method calls on an environment object.             *)
(***************************************************************************)
\* quat / quat.norm(dim=1, keepdim=True), for a one-component orientation
UnitQuat(q) == IF q > 0 THEN 1 ELSE IF q < 0 THEN -1 ELSE 0

get_quat(quat, add_noise, noise_std, noise) ==
    IF add_noise /\ noise_std > 0
    THEN [s \in Slots |-> UnitQuat(quat[s] + noise[s])]
    ELSE quat

\* Color lists passed to initialize_debug_color_spheres.
ColorList(n) == [i \in 1..n |-> "red"]
ColorInputs == {NoColors} \cup {ColorList(n) : n \in 0..(num_envs + 1)}

\* Variant: "if drone_colors is not None:"
Truthy_NotNone(colors) == colors # NoColors

\* "if drone_colors:"
Truthy(colors) == colors # NoColors /\ colors # <<>>

EnvInitArgs ==
    /\ env_idx = [w \in WorkerSet |->
                     CASE w = "tracking" -> 0 [] w = "rl" -> 1 [] OTHER -> 2]
    /\ eval_setpoints = SetpointList(1)
    /\ steps_per_setpoint = 1
    /\ min_at_target_steps = 1
    /\ error_threshold \in ErrorThresholds
    /\ start_method = "spawn"
    /\ device = "cuda"
    /\ num_envs = 3

EnvInitObj ==
    /\ base_pos = [s \in Slots |-> 0]
    /\ commands = [s \in Slots |-> 0]
    /\ base_quat = [s \in Slots |-> 0]
    /\ rel_pos = [s \in Slots |-> 0]
    /\ obs_noise_std \in {0, 1}
    /\ min_hover_steps \in 0..MaxHoverSteps
    /\ hover_counter = [s \in Slots |-> 0]
    /\ drone_colors = NoColors
    /\ drone_colors_enabled = FALSE
    /\ ret = NoCall
    /\ InitEnvBufs
    /\ InitEnvKeep

EnvInit ==
    /\ EnvInitArgs /\ InitMain /\ EnvInitObj /\ InitWorkers /\ InitHistory
    /\ cpc = "validate"

\* Action batches given to step: inside and outside the clip range.
StepActions == { [s \in Slots |-> 0], [s \in Slots |-> clip_actions + 1] }

\* HoverEnv.step called directly, up to MaxEpisodeLength times.
EnvStep ==
    /\ \A s \in Slots : episode_length_buf[s] < MaxEpisodeLength
    /\ \E actions \in StepActions : \E outcome \in StepOutcomes :
          step(actions, outcome)
    /\ ret' = [method |-> "step"]
    /\ UNCHANGED <<args, cpc, target_idx, sim_info, is_new_target, mainLoop,
                   action_buffer, lists, trajectory, queues,
                   workerVars, workerHist, tick, ticks_done, calls, collected,
                   done_sent, err_hist, obs_got, env_steps, step_hist,
                   obs_noise_std, min_hover_steps,
                   drone_colors, drone_colors_enabled, envKeep>>

EnvUpdateTargetPos ==
    /\ \E t \in {0, 1} : commands' = update_target_pos(commands, Slots, t)
    /\ ret' = [method |-> "update_target_pos"]
    /\ UNCHANGED <<args, cpc, target_idx, sim_info, is_new_target, mainLoop,
                   action_buffer, lists, trajectory, queues, base_pos,
                   workerVars, workerHist, tick, ticks_done, calls, collected,
                   done_sent, err_hist, obs_got, env_steps, step_hist,
                   base_quat, rel_pos, obs_noise_std, min_hover_steps,
                   hover_counter, drone_colors, drone_colors_enabled, envBufs, envKeep>>

EnvHoveringAtTarget ==
    /\ \A s \in Slots : hover_counter[s] < MaxHoverCount
    /\ hover_counter' = HoverCounterAfter(hover_counter, at_target_mask(rel_pos),
                                          min_hover_steps)
    /\ ret' = [method |-> "_hovering_at_target",
               value  |-> HoveringResult(hover_counter', at_target_mask(rel_pos),
                                         min_hover_steps)]
    /\ UNCHANGED <<args, cpc, target_idx, sim_info, is_new_target, mainLoop,
                   action_buffer, lists, trajectory, queues, envVars,
                   workerVars, workerHist, tick, ticks_done, calls, collected,
                   done_sent, err_hist, obs_got, env_steps, step_hist,
                   base_quat, rel_pos, obs_noise_std, min_hover_steps,
                   drone_colors, drone_colors_enabled, envBufs, envKeep>>

EnvGetPos ==
    /\ \E add_noise \in BOOLEAN : \E noise \in NoiseDraws :
          ret' = [method    |-> "get_pos",
                  add_noise |-> add_noise,
                  noise     |-> noise,
                  value     |-> get_pos(base_pos, add_noise, obs_noise_std, noise)]
    /\ UNCHANGED <<args, cpc, target_idx, sim_info, is_new_target, mainLoop,
                   action_buffer, lists, trajectory, queues, envVars,
                   workerVars, workerHist, tick, ticks_done, calls, collected,
                   done_sent, err_hist, obs_got, env_steps, step_hist,
                   base_quat, rel_pos, obs_noise_std, min_hover_steps,
                   hover_counter, drone_colors, drone_colors_enabled, envBufs, envKeep>>

EnvGetQuat ==
    /\ \E add_noise \in BOOLEAN : \E noise \in NoiseDraws :
          ret' = [method    |-> "get_quat",
                  add_noise |-> add_noise,
                  noise     |-> noise,
                  value     |-> get_quat(base_quat, add_noise, obs_noise_std, noise)]
    /\ UNCHANGED <<args, cpc, target_idx, sim_info, is_new_target, mainLoop,
                   action_buffer, lists, trajectory, queues, envVars,
                   workerVars, workerHist, tick, ticks_done, calls, collected,
                   done_sent, err_hist, obs_got, env_steps, step_hist,
                   base_quat, rel_pos, obs_noise_std, min_hover_steps,
                   hover_counter, drone_colors, drone_colors_enabled, envBufs, envKeep>>

EnvInitializeDebugColorSpheres ==
    /\ \E colors \in ColorInputs :
          IF ~Truthy(colors)
          THEN /\ ret' = [method |-> "initialize_debug_color_spheres",
                          colors |-> colors, raised |-> "none"]
               /\ UNCHANGED <<drone_colors, drone_colors_enabled>>
          ELSE IF Len(colors) # num_envs
          THEN /\ ret' = [method |-> "initialize_debug_color_spheres",
                          colors |-> colors, raised |-> "ValueError"]
               /\ UNCHANGED <<drone_colors, drone_colors_enabled>>
          ELSE /\ drone_colors' = colors
               /\ drone_colors_enabled' = TRUE
               /\ ret' = [method |-> "initialize_debug_color_spheres",
                          colors |-> colors, raised |-> "none"]
    /\ UNCHANGED <<args, cpc, target_idx, sim_info, is_new_target, mainLoop,
                   action_buffer, lists, trajectory, queues, envVars,
                   workerVars, workerHist, tick, ticks_done, calls, collected,
                   done_sent, err_hist, obs_got, env_steps, step_hist,
                   base_quat, rel_pos, obs_noise_std, min_hover_steps,
                   hover_counter, envBufs, envKeep>>

EnvNext ==
    \/ EnvStep
    \/ EnvUpdateTargetPos
    \/ EnvHoveringAtTarget
    \/ EnvGetPos
    \/ EnvGetQuat
    \/ EnvInitializeDebugColorSpheres

EnvSpec == EnvInit /\ [][EnvNext]_vars

\* The drones within the threshold of their target.
DronesAtTarget == {s \in Slots : Abs(rel_pos[s]) < at_target_threshold}

\* C25: a call of _hovering_at_target with min_hover_steps > 0 adds 1 to the
\* hover counter of every drone within at_target_threshold of its target,
\* sets the counter of every other drone to 0 and returns exactly the drones
\* whose counter is now >= min_hover_steps; with min_hover_steps = 0 it
\* returns exactly the drones at target and leaves the counters unchanged.
C25_HoveringAtTarget ==
    [][EnvHoveringAtTarget =>
          IF min_hover_steps > 0
          THEN /\ \A s \in Slots :
                     hover_counter'[s] =
                        IF s \in DronesAtTarget THEN hover_counter[s] + 1 ELSE 0
               /\ ret'.value =
                     {s \in Slots : hover_counter'[s] >= min_hover_steps}
               /\ \A s \in ret'.value \cap DronesAtTarget :
                     hover_counter[s] >= min_hover_steps - 1
          ELSE /\ hover_counter' = hover_counter
               /\ ret'.value = DronesAtTarget]_vars

\* The second consecutive call with a drone at its target and another drone
\* away from its target, min_hover_steps = 2: the first drone is returned.
C25_Witness ==
    /\ ret.method = "_hovering_at_target"
    /\ min_hover_steps = 2
    /\ \E s \in Slots : hover_counter[s] = 2 /\ s \in ret.value
    /\ \E s \in Slots : hover_counter[s] = 0 /\ s \notin DronesAtTarget
                           /\ s \notin ret.value

\* C27: initialize_debug_color_spheres given a non-empty color list whose
\* length differs from num_envs raises ValueError and leaves
\* drone_colors_enabled as it was (false on an environment that had no
\* colors); given exactly num_envs colors it stores them and sets
\* drone_colors_enabled; given None or an empty list it raises nothing and
\* changes nothing.
C27_InitializeDebugColorSpheres ==
    [][EnvInitializeDebugColorSpheres =>
          LET colors == ret'.colors
          IN  IF colors = NoColors \/ colors = <<>>
              THEN /\ ret'.raised = "none"
                   /\ UNCHANGED <<drone_colors, drone_colors_enabled>>
              ELSE IF Len(colors) = num_envs
              THEN /\ ret'.raised = "none"
                   /\ drone_colors' = colors
                   /\ drone_colors_enabled'
              ELSE /\ ret'.raised = "ValueError"
                   /\ UNCHANGED <<drone_colors, drone_colors_enabled>>
                   /\ ~drone_colors_enabled => ~drone_colors_enabled']_vars

\* A list one color short has been refused on an environment without colors.
C27_Witness ==
    /\ ret.method = "initialize_debug_color_spheres"
    /\ ret.raised = "ValueError"
    /\ Len(ret.colors) = num_envs - 1
    /\ ~drone_colors_enabled
    /\ drone_colors = NoColors

(***************************************************************************)
(* Runs on an environment with observation noise; once the run has         *)
(* returned, the caller reads the environment with get_pos and get_quat.   *)
(***************************************************************************)
NoiseInitArgs ==
    /\ env_idx = [w \in WorkerSet |->
                     CASE w = "tracking" -> 0 [] w = "rl" -> 1 [] OTHER -> 2]
    /\ eval_setpoints = SetpointList(1)
    /\ steps_per_setpoint \in {NoSteps, 1}
    /\ min_at_target_steps = 1
    /\ error_threshold \in ErrorThresholds
    /\ start_method = "spawn"
    /\ device = "cuda"
    /\ num_envs = 3

NoiseInitEnv ==
    /\ base_pos = [s \in Slots |-> 0]
    /\ commands = [s \in Slots |-> 0]
    /\ base_quat = StepQuat(base_pos)
    /\ rel_pos = RelPos(commands, base_pos)
    /\ obs_noise_std \in {0, 1}
    /\ min_hover_steps = 0
    /\ hover_counter = [s \in Slots |-> 0]
    /\ drone_colors = NoColors
    /\ drone_colors_enabled = FALSE
    /\ ret = NoCall
    /\ InitEnvBufs
    /\ InitEnvKeep

NoiseInit ==
    /\ NoiseInitArgs /\ InitMain /\ NoiseInitEnv /\ InitWorkers /\ InitHistory
    /\ cpc = "validate"

\* The run has returned: the environment is the caller's again.
RunOver == cpc = "returned"

CallerGetPos == RunOver /\ EnvGetPos

CallerGetQuat == RunOver /\ EnvGetQuat

NoiseNext == Next \/ CallerGetPos \/ CallerGetQuat

NoiseSpec == NoiseInit /\ [][NoiseNext]_vars

\* The stored true state of the environment.
StoredState == <<base_pos, base_quat, rel_pos, commands, obs_noise_std>>

\* What a call of get_pos or get_quat returned, against the state it read.
ReadsStoredState(stored, noisy) ==
    /\ IF ret'.add_noise /\ obs_noise_std > 0
       THEN ret'.value = noisy
       ELSE ret'.value = stored
    /\ ~ret'.add_noise => ret'.value = stored
    /\ UNCHANGED StoredState

\* C26: get_pos and get_quat add noise only when add_noise is true and
\* obs_noise_std > 0; with add_noise = False they return the stored true
\* position / quaternion whatever obs_noise_std is, and neither changes the
\* stored state. The tracker is advanced with the true position and the
\* recorder stores the true position, so setpoint switching and the
\* recorded outputs do not depend on the observation noise.
C26_NoiseOnlyOnRequest ==
    /\ [][/\ EnvGetPos =>
                ReadsStoredState(base_pos,
                                 [s \in Slots |-> base_pos[s] + ret'.noise[s]])
          /\ EnvGetQuat =>
                ReadsStoredState(base_quat,
                                 [s \in Slots |->
                                     UnitQuat(base_quat[s] + ret'.noise[s])])
          /\ CTracker =>
                sim_info' = UpdateSimulationProgress(
                                target_pos, base_pos, steps_per_setpoint,
                                min_at_target_steps, error_threshold, sim_info)
          /\ CSendObs => drone_pos_list' = Append(drone_pos_list, base_pos)]_vars
    /\ [](cpc \in {"join", "returned"} =>
             \A s \in Slots : \A t \in 1..Len(step_hist) :
                 trajectory.system_outputs[s][t] = step_hist[t].pos[s])

\* On an environment with observation noise the run has returned and the
\* caller has read the position without noise.
C26_Witness ==
    /\ obs_noise_std > 0
    /\ cpc = "returned"
    /\ ret.method = "get_pos"
    /\ ~ret.add_noise
    /\ ret.value = base_pos
    /\ \E s \in Slots : ret.noise[s] # 0

(***************************************************************************)
(* Fixed-duration runs                                                     *)
(***************************************************************************)
\* Fixed-duration mode with at least one step per setpoint, on a run whose
\* workers are started.
FixedRun == steps_per_setpoint >= 1 /\ start_method = "spawn"

\* The setpoints already completed, and the ticks they and the calls on the
\* current setpoint add up to.
SetpointsCompleted ==
    IF cpc \in {"join", "returned"} THEN num_setpoints ELSE target_idx

FixedTickCount ==
    /\ calls <= steps_per_setpoint
    /\ cpc \in {"loop", "send", "recv", "step", "obs"} =>
          tick = target_idx * steps_per_setpoint + calls
    /\ cpc \in {"setpoint", "join", "returned"} /\ tick > 0 =>
          tick = SetpointsCompleted * steps_per_setpoint
    /\ \A t \in 1..Len(target_pos_list) :
          target_pos_list[t] = eval_setpoints[(t - 1) \div steps_per_setpoint + 1]
    /\ cpc \in {"join", "returned"} =>
          /\ tick = num_setpoints * steps_per_setpoint
          /\ ticks_done = tick
          /\ env_steps = tick
          /\ Len(trajectory.system_setpoint) = tick

\* The tick on which the tracker marked the setpoint done has been executed
\* in full when the main process leaves the setpoint.
DoneTickExecuted ==
    (cpc = "loop" /\ cpc' = "setpoint") =>
        /\ sim_info.target_done
        /\ calls = steps_per_setpoint
        /\ ticks_done = tick
        /\ env_steps = tick
        /\ Len(normalized_action_list) = tick
        /\ Len(drone_pos_list) = tick
        /\ Len(target_pos_list) = tick
        /\ \A w \in WorkerSet : signals_got[w] = tick /\ pushed[w] = tick

\* C31: fixed-duration mode with steps_per_setpoint = n >= 1 over S >= 1
\* setpoints: every setpoint gets exactly n ticks, the run makes S * n ticks
\* in total and then returns, and the tick on which the tracker marks a
\* setpoint done is executed in full (signals, actions, step, records)
\* before the next setpoint begins or the run ends.
C31_FixedDurationTicks ==
    /\ [](FixedRun => FixedTickCount)
    /\ [][FixedRun => DoneTickExecuted]_vars
    /\ (FixedRun /\ cpc = "validate") ~>
          (cpc = "returned" /\ tick = num_setpoints * steps_per_setpoint)

\* Two setpoints of one tick each: the run has returned after two ticks.
C31_Witness ==
    /\ cpc = "returned"
    /\ steps_per_setpoint = 1
    /\ num_setpoints = 2
    /\ tick = 2
    /\ target_pos_list = eval_setpoints

(***************************************************************************)
(* Fresh tracker state and environment target at every setpoint            *)
(***************************************************************************)
\* The first progress update of a setpoint starts from zeroed counters and
\* a cleared done flag.
FirstCallFresh ==
    CTracker /\ calls = 0 =>
        /\ sim_info.steps_since_target_set = 0
        /\ sim_info.at_target_steps = 0
        /\ ~sim_info.target_done

\* The signals of the first tick of a setpoint are put after the target of
\* every agent slot was set to that setpoint.
TargetSetBeforeSignal ==
    CSendSignal /\ calls = 1 =>
        /\ \A s \in Slots : commands[s] = target_pos
        /\ target_signal_queue'[Len(target_signal_queue')].target_pos = target_pos

\* C32: at the first tracker call of every setpoint the counters
\* steps_since_target_set and at_target_steps are 0 and target_done is
\* false, and the environment target of every agent slot equals the new
\* setpoint before the first target signal of that setpoint is sent.
C32_FreshSetpointState == [][FirstCallFresh /\ TargetSetBeforeSignal]_vars

\* The first signal of the second setpoint is in flight: the first setpoint
\* ended with a non-zero counter, and the two setpoints differ.
C32_Witness ==
    /\ target_idx = 1
    /\ calls = 1
    /\ cpc = "send"
    /\ sent = 1
    /\ eval_setpoints[1] # eval_setpoints[2]
    /\ \A s \in Slots : commands[s] = eval_setpoints[2]
    /\ sim_info.steps_since_target_set + sim_info.at_target_steps = 1

(***************************************************************************)
(* The returned setpoint sequence                                          *)
(***************************************************************************)
\* n[1] copies of setpoint 1, then n[2] copies of setpoint 2, ... up to
\* setpoint k.
RECURSIVE SetpointBlocks(_, _)
SetpointBlocks(n, k) ==
    IF k = 0
    THEN <<>>
    ELSE SetpointBlocks(n, k - 1) \o [j \in 1..n[k] |-> eval_setpoints[k]]

\* The ticks of the setpoint in progress, 0 between two setpoints.
OpenTicks == IF cpc \in {"loop", "send", "recv", "step", "obs"} THEN calls ELSE 0

\* The stored targets are the blocks of the completed setpoints, each of at
\* least one entry, followed by one entry per tick of the setpoint in
\* progress.
StoredTargetsInOrder ==
    /\ Len(target_pos_list) = tick
    /\ OpenTicks <= tick
    /\ \E n \in [1..target_idx -> 1..MaxTicks] :
          SubSeq(target_pos_list, 1, tick - OpenTicks) =
              SetpointBlocks(n, target_idx)
    /\ \A t \in (tick - OpenTicks + 1)..tick : target_pos_list[t] = target_pos

\* Every signal of tick t carries entry t of the stored targets.
SignalsCarryEntry ==
    /\ \A i \in 1..Len(target_signal_queue) :
          target_signal_queue[i].target_pos = target_pos_list[tick]
    /\ \A w \in WorkerSet :
          signals_got[w] >= 1 =>
              w_signal[w].target_pos = target_pos_list[signals_got[w]]

\* A setpoint is left after at least one tick, all of them stored.
BlockClosed ==
    (cpc = "loop" /\ cpc' = "setpoint") =>
        /\ calls >= 1
        /\ \A t \in (tick - calls + 1)..tick : target_pos_list[t] = target_pos

\* C33: the returned setpoint sequence is the concatenation, in the
\* configured order, of n_i >= 1 copies of setpoint i, n_i being the ticks
\* executed for setpoint i, and entry t is the target position carried by
\* the signals of tick t.
C33_SetpointSequence ==
    /\ [](StoredTargetsInOrder /\ SignalsCarryEntry)
    /\ [](cpc \in {"join", "returned"} =>
              trajectory.system_setpoint = target_pos_list)
    /\ [][BlockClosed]_vars

\* A run over two different setpoints returned two copies of the first and
\* one of the second.
C33_Witness ==
    /\ cpc = "returned"
    /\ num_setpoints = 2
    /\ eval_setpoints[1] # eval_setpoints[2]
    /\ trajectory.system_setpoint =
          <<eval_setpoints[1], eval_setpoints[1], eval_setpoints[2]>>

(***************************************************************************)
(* The two modes of update_simulation_progress                             *)
(***************************************************************************)
\* What a call leaves alone, from info to out, whatever the mode.
TrackerFrame(info, out) ==
    /\ out.current_target_idx = info.current_target_idx
    /\ out.num_targets = info.num_targets
    /\ info.target_done => out.target_done
    /\ ~info.in_progress => ~out.in_progress

\* Fixed-duration mode: at_target_steps is left alone, and the outcome is
\* the same for every drone position.
FixedModeFrame(tp, info, out) ==
    /\ out.at_target_steps = info.at_target_steps
    /\ \A pos \in StepOutcomes :
          UpdateSimulationProgress(tp, pos, steps_per_setpoint,
                                   min_at_target_steps, error_threshold,
                                   info) = out

\* Stabilization mode: steps_since_target_set is left alone.
StabilizationModeFrame(info, out) ==
    out.steps_since_target_set = info.steps_since_target_set

ModeFrame(tp, info, out) ==
    /\ TrackerFrame(info, out)
    /\ IF steps_per_setpoint # NoSteps
       THEN FixedModeFrame(tp, info, out)
       ELSE StabilizationModeFrame(info, out)

\* Tracker states a call may be given, done and terminated ones included.
SimInfos ==
    [num_targets : 1..MaxTargets,
     steps_since_target_set : 0..MaxSteps,
     at_target_steps : 0..MaxMinAt,
     target_done : BOOLEAN,
     current_target_idx : 0..(MaxTargets - 1),
     in_progress : BOOLEAN]

\* C34: with steps_per_setpoint set, update_simulation_progress never
\* changes at_target_steps and its outcome does not depend on the
\* positions; without it, it never changes steps_since_target_set; in both
\* modes it never changes current_target_idx or num_targets, never clears
\* target_done and never sets in_progress.  The call is a function of the
\* run's arguments and of its inputs, so all inputs are tried once per run,
\* before its first tick.
C34_ModesExclusive ==
    /\ [][TrackerTick => ModeFrame(target_pos, sim_info, sim_info')]_vars
    /\ [](tick = 0 =>
          \A info \in SimInfos : \A pos \in StepOutcomes :
              \A k \in 1..num_setpoints :
                  ModeFrame(eval_setpoints[k], info,
                            UpdateSimulationProgress(
                                eval_setpoints[k], pos, steps_per_setpoint,
                                min_at_target_steps, error_threshold, info)))

\* Fixed-duration mode, second setpoint: two calls were made at different
\* position errors and only steps_since_target_set moved.
C34_Witness ==
    /\ steps_per_setpoint # NoSteps
    /\ target_idx = 1
    /\ cpc = "loop"
    /\ calls = 2
    /\ sim_info.steps_since_target_set = 2
    /\ sim_info.at_target_steps = 0
    /\ sim_info.current_target_idx = 1
    /\ err_hist[Len(err_hist)] # err_hist[Len(err_hist) - 1]

(***************************************************************************)
(* Episodes of a HoverEnv: steps with crashes and time-outs.                *)
(***************************************************************************)
\* A two-drone environment; the arguments of the run are not used.
EpisodeInitArgs ==
    /\ env_idx = [w \in WorkerSet |-> 0]
    /\ eval_setpoints = SetpointList(1)
    /\ steps_per_setpoint = 1
    /\ min_at_target_steps = 1
    /\ error_threshold \in ErrorThresholds
    /\ start_method = "spawn"
    /\ device = "cuda"
    /\ num_envs = 2

EpisodeInitObj(auto) ==
    /\ base_pos = [s \in Slots |-> base_init_pos]
    /\ commands = [s \in Slots |-> 0]
    /\ base_quat = [s \in Slots |-> base_init_quat]
    /\ rel_pos = [s \in Slots |-> 0]
    /\ obs_noise_std = 0
    /\ min_hover_steps = MaxHoverSteps
    /\ hover_counter = [s \in Slots |-> 0]
    /\ drone_colors = NoColors
    /\ drone_colors_enabled = FALSE
    /\ ret = NoCall
    /\ InitEnvBufs
    /\ max_episode_length = MaxEpisodeLength
    /\ auto_target_updates \in auto

EpisodeInit ==
    /\ EpisodeInitArgs /\ InitMain /\ EpisodeInitObj(BOOLEAN) /\ InitWorkers
    /\ InitHistory
    /\ cpc = "validate"

\* Physics outcomes within the termination limits, and one that leaves
\* drone 0 below the ground limit.
EpisodeOutcomes ==
    StepOutcomes \cup
        { [s \in Slots |-> IF s = 0 THEN termination_if_close_to_ground - 1
                                    ELSE 1] }

\* HoverEnv.step; the call records the drones reset_idx was called for.
EpisodeStep ==
    /\ \E actions \in StepActions : \E outcome \in EpisodeOutcomes :
          /\ step(actions, outcome)
          /\ ret' = [method |-> "step", reset |-> reset_envs(outcome)]
    /\ UNCHANGED <<args, cpc, target_idx, sim_info, is_new_target, mainLoop,
                   action_buffer, lists, trajectory, queues,
                   workerVars, workerHist, tick, ticks_done, calls, collected,
                   done_sent, err_hist, obs_got, env_steps, step_hist,
                   obs_noise_std, min_hover_steps,
                   drone_colors, drone_colors_enabled, envKeep>>

EpisodeNext == EpisodeStep \/ EnvUpdateTargetPos

EpisodeSpec == EpisodeInit /\ [][EpisodeNext]_vars

(***************************************************************************)
(* Saving and restoring the state of a drone.                              *)
(***************************************************************************)
\* The environment create_env builds: no automatic target updates.
SaveInit ==
    /\ EpisodeInitArgs /\ InitMain /\ EpisodeInitObj({FALSE}) /\ InitWorkers
    /\ InitHistory
    /\ cpc = "validate"

\* Physics outcomes: both drones fly, or drone 0 falls below the ground
\* limit.
SaveOutcomes ==
    { [s \in Slots |-> 1],
      [s \in Slots |-> IF s = 0 THEN termination_if_close_to_ground - 1
                                  ELSE 1] }

\* HoverEnv.step; the call records the drones reset_idx was called for.
SaveStep ==
    /\ \E actions \in StepActions : \E outcome \in SaveOutcomes :
          /\ step(actions, outcome)
          /\ ret' = [method |-> "step", reset |-> reset_envs(outcome)]
    /\ UNCHANGED <<args, cpc, target_idx, sim_info, is_new_target, mainLoop,
                   action_buffer, lists, trajectory, queues,
                   workerVars, workerHist, tick, ticks_done, calls, collected,
                   done_sent, err_hist, obs_got, env_steps, step_hist,
                   obs_noise_std, min_hover_steps,
                   drone_colors, drone_colors_enabled, envKeep>>

\* get_current_state(envs_idx) for one drone: the EnvState it returns.
EnvState(i) ==
    [base_pos              |-> base_pos[i],
     base_quat             |-> base_quat[i],
     base_lin_vel          |-> base_lin_vel[i],
     base_ang_vel          |-> base_ang_vel[i],
     commands              |-> commands[i],
     episode_length        |-> episode_length_buf[i],
     last_actions          |-> last_actions[i],
     ctbr_controller_state |-> ctbr_controller_state]

\* s = get_current_env_state(env, env_idx), kept by the caller; one state
\* is taken per run.
SaveGetCurrentState ==
    /\ ~saved_state.taken
    /\ \E i \in Slots :
          saved_state' = [taken |-> TRUE, idx |-> i, state |-> EnvState(i)]
    /\ ret' = [method |-> "get_current_state"]
    /\ UNCHANGED <<args, cpc, target_idx, sim_info, is_new_target, mainLoop,
                   action_buffer, lists, trajectory, queues, envVars,
                   workerVars, workerHist, tick, ticks_done, calls, collected,
                   done_sent, err_hist, obs_got, env_steps, step_hist,
                   base_quat, rel_pos, obs_noise_std, min_hover_steps,
                   hover_counter, drone_colors, drone_colors_enabled,
                   envBufs, max_episode_length, auto_target_updates,
                   callbackVars>>

\* restore_env_from_state(env, env_idx, s) with the state taken for env_idx.
SaveRestoreFromState ==
    /\ saved_state.taken
    /\ LET i == saved_state.idx
           st == saved_state.state
       IN  /\ base_pos' = [base_pos EXCEPT ![i] = st.base_pos]
           /\ rel_pos' = [rel_pos EXCEPT ![i] = st.commands - st.base_pos]
           /\ base_quat' = [base_quat EXCEPT ![i] = st.base_quat]
           /\ base_lin_vel' = [base_lin_vel EXCEPT ![i] = st.base_lin_vel]
           /\ base_ang_vel' = [base_ang_vel EXCEPT ![i] = st.base_ang_vel]
           /\ last_actions' = [last_actions EXCEPT ![i] = st.last_actions]
           /\ episode_length_buf' =
                 [episode_length_buf EXCEPT ![i] = st.episode_length]
           /\ reset_buf' = [reset_buf EXCEPT ![i] = TRUE]
           /\ ctbr_controller_state' = st.ctbr_controller_state
    /\ ret' = [method |-> "restore_from_state"]
    /\ UNCHANGED <<args, cpc, target_idx, sim_info, is_new_target, mainLoop,
                   action_buffer, lists, trajectory, queues, commands,
                   workerVars, workerHist, tick, ticks_done, calls, collected,
                   done_sent, err_hist, obs_got, env_steps, step_hist,
                   obs_noise_std, min_hover_steps, hover_counter,
                   drone_colors, drone_colors_enabled, envKeep>>

SaveNext ==
    \/ SaveStep
    \/ EnvUpdateTargetPos
    \/ SaveGetCurrentState
    \/ SaveRestoreFromState

SaveSpec == SaveInit /\ [][SaveNext]_vars

\* C35: with auto_target_updates = False no call of step changes commands,
\* steps that reset a crashed or timed-out drone included; the commands
\* change only through update_target_pos.
C35_StepKeepsCommands ==
    [][(EpisodeStep /\ ~auto_target_updates) => commands' = commands]_vars

\* C36: after s = get_current_state(idx), any sequence of step and
\* update_target_pos calls, and restore_from_state(idx, s), the state
\* get_current_state(idx) returns equals s in every field.
C36_SaveRestoreRoundTrip ==
    [][SaveRestoreFromState =>
          EnvState(saved_state.idx)' = saved_state.state]_vars

\* The buffers of every drone after a step.
BuffersAfterStep ==
    \A s \in Slots :
        /\ episode_length_buf'[s] \in 0..max_episode_length
        /\ reset_buf'[s] <=> s \in ret'.reset
        /\ reset_buf'[s] =>
              /\ episode_length_buf'[s] = 0
              /\ hover_counter'[s] = 0
        /\ ~reset_buf'[s] =>
              episode_length_buf'[s] = episode_length_buf[s] + 1

\* C37: after every step 0 <= episode_length_buf[i] <= max_episode_length;
\* reset_buf[i] is true exactly when drone i was reset during that step, and
\* then episode_length_buf[i] = 0 and hover_counter[i] = 0; the episode
\* length of a drone that was not reset grew by exactly 1.
C37_EpisodeBuffers == [][EpisodeStep => BuffersAfterStep]_vars

\* A step reset drone 0, which crashed, and not drone 1, whose episode is
\* at its full length.
C37_Witness ==
    /\ ret.method = "step"
    /\ ret.reset = {0}
    /\ reset_buf[0] /\ ~reset_buf[1]
    /\ episode_length_buf[0] = 0
    /\ episode_length_buf[1] = max_episode_length
    /\ base_pos[1] # base_init_pos

(***************************************************************************)
(* drone_tracking_callback: the stability guard of the data-driven MPC     *)
(* simulation, called once per step until it raises.                       *)
(***************************************************************************)
CallbackInit ==
    /\ EnvInitArgs /\ InitMain /\ InitEnv /\ InitWorkers /\ InitHistory
    /\ cpc = "validate"

\* Inputs and outputs of a step, drone positions, setpoints, and the
\* distances bound to the callback.
CallbackInputs == {1, 2}
CallbackPositions == 0..3
CallbackSetpoints == {0, 1}
CallbackDistances == {0, 1}

\* Variant: the comparison with the threshold is not strict.
MovedAway_NonStrict(current_distance, initial_distance, distance_threshold) ==
    current_distance - initial_distance >= distance_threshold

\* current_distance - initial_distance > distance_threshold
MovedAway(current_distance, initial_distance, distance_threshold) ==
    current_distance - initial_distance > distance_threshold

\* The last call raised ValueError.
Raised == ret.method = "drone_tracking_callback" /\ ret.raised

\* One call of drone_tracking_callback, for the step after the last one;
\* the simulation calls it for step 0, 1, ... and ends when it raises.
drone_tracking_callback ==
    /\ ~Raised
    /\ info_dict.last_step + 1 < MaxCallbackSteps
    /\ LET step_k == info_dict.last_step + 1
       IN  \E u_sys_k \in CallbackInputs : \E y_sys_k \in CallbackInputs :
           \E x \in CallbackPositions : \E y_r \in CallbackSetpoints :
           \E initial_distance \in CallbackDistances :
           \E distance_threshold \in CallbackDistances :
               /\ U_k' = [U_k EXCEPT ![step_k] = u_sys_k]
               /\ Y_k' = [Y_k EXCEPT ![step_k] = y_sys_k]
               /\ info_dict' = [info_dict EXCEPT !.last_step = step_k]
               /\ ret' = [method             |-> "drone_tracking_callback",
                          step               |-> step_k,
                          u_sys_k            |-> u_sys_k,
                          y_sys_k            |-> y_sys_k,
                          current_distance   |-> Abs(x - y_r),
                          initial_distance   |-> initial_distance,
                          distance_threshold |-> distance_threshold,
                          raised |-> MovedAway(Abs(x - y_r), initial_distance,
                                               distance_threshold)]
    /\ UNCHANGED <<args, cpc, target_idx, sim_info, is_new_target, mainLoop,
                   action_buffer, lists, trajectory, queues, envVars,
                   workerVars, workerHist, tick, ticks_done, calls, collected,
                   done_sent, err_hist, obs_got, env_steps, step_hist,
                   base_quat, rel_pos, obs_noise_std, min_hover_steps,
                   hover_counter, drone_colors, drone_colors_enabled,
                   envBufs, saved_state, max_episode_length,
                   auto_target_updates>>

CallbackNext == drone_tracking_callback

CallbackSpec == CallbackInit /\ [][CallbackNext]_vars

\* A call stores the data of its step and the step number, touches no
\* other entry, and raises exactly when the drone moved away from its
\* setpoint by more than the threshold.
CallStoresThenGuards ==
    drone_tracking_callback =>
        LET k == ret'.step
        IN  /\ k = info_dict.last_step + 1
            /\ U_k' = [U_k EXCEPT ![k] = ret'.u_sys_k]
            /\ Y_k' = [Y_k EXCEPT ![k] = ret'.y_sys_k]
            /\ info_dict'.last_step = k
            /\ ret'.raised <=>
                  ret'.current_distance - ret'.initial_distance
                      > ret'.distance_threshold

\* After a raise, last_step is the step that raised, its data is stored and
\* no later step is.
AfterRaise ==
    Raised =>
        /\ info_dict.last_step = ret.step
        /\ U_k[ret.step] = ret.u_sys_k
        /\ Y_k[ret.step] = ret.y_sys_k
        /\ \A j \in (ret.step + 1)..(MaxCallbackSteps - 1) :
              U_k[j] = NotRecorded /\ Y_k[j] = NotRecorded

\* C38: drone_tracking_callback, called for step k, first stores the input
\* and output of step k in U_k[k] and Y_k[k] and sets
\* info_dict["last_step"] = k, then raises ValueError if and only if
\* (current distance to the setpoint) - initial_distance >
\* distance_threshold; after a raise last_step is the diverging step, its
\* data is recorded and no later step is recorded.
C38_StabilityGuard ==
    /\ [][CallStoresThenGuards]_vars
    /\ []AfterRaise
    /\ [][Raised => UNCHANGED <<U_k, Y_k, info_dict>>]_vars

\* The call for step 1 raised: steps 0 and 1 are stored, step 2 is not.
C38_Witness ==
    /\ Raised
    /\ ret.step = 1
    /\ info_dict.last_step = 1
    /\ U_k[0] # NotRecorded /\ U_k[1] = ret.u_sys_k
    /\ Y_k[1] = ret.y_sys_k
    /\ U_k[2] = NotRecorded
====
